---- MODULE Spec2Model ----
(***************************************************************************)
(* Model of the chart-request classification of fd-agents:                 *)
(*   backend/app/agents/fallback_agent.py  (rule-based engine)             *)
(*   backend/app/agents/chart_agent.py     (LLM path with fallback)        *)
(* and of what surrounds it:                                               *)
(*   backend/app/services/persistence.py   (session store)                 *)
(*   backend/app/api/routes/               (chat, upload, preferences)     *)
(*   backend/app/services/chart_generator.py  (label sampling)             *)
(*   backend/app/services/excel_parser.py  (chart-type suggestion)         *)
(*                                                                         *)
(* Text is a sequence of one-character strings, so that substring tests    *)
(* and the key=value regular expression are computed character by          *)
(* character, as Python does.  An Optional value is a sequence of length   *)
(* 0 (None) or 1 (the value).  A float is kept in tenths (1.5 is 15).      *)
(***************************************************************************)
EXTENDS Integers, Sequences, FiniteSets, TLC

(***************************************************************************)
(* Bounds of the model.                                                    *)
(***************************************************************************)
MaxHist == 2

(***************************************************************************)
(* Characters and text.                                                    *)
(***************************************************************************)
UpperToLower ==
  [c \in {"A","B","C","D","E","F","G","H","I","J","K","L","M",
          "N","O","P","Q","R","S","T","U","V","W","X","Y","Z"} |->
     CASE c = "A" -> "a" [] c = "B" -> "b" [] c = "C" -> "c" [] c = "D" -> "d"
       [] c = "E" -> "e" [] c = "F" -> "f" [] c = "G" -> "g" [] c = "H" -> "h"
       [] c = "I" -> "i" [] c = "J" -> "j" [] c = "K" -> "k" [] c = "L" -> "l"
       [] c = "M" -> "m" [] c = "N" -> "n" [] c = "O" -> "o" [] c = "P" -> "p"
       [] c = "Q" -> "q" [] c = "R" -> "r" [] c = "S" -> "s" [] c = "T" -> "t"
       [] c = "U" -> "u" [] c = "V" -> "v" [] c = "W" -> "w" [] c = "X" -> "x"
       [] c = "Y" -> "y" [] c = "Z" -> "z"]

LowerLetters ==
  {"a","b","c","d","e","f","g","h","i","j","k","l","m",
   "n","o","p","q","r","s","t","u","v","w","x","y","z"}

Digits == {"0","1","2","3","4","5","6","7","8","9"}

DigitVal ==
  [c \in Digits |->
     CASE c = "0" -> 0 [] c = "1" -> 1 [] c = "2" -> 2 [] c = "3" -> 3
       [] c = "4" -> 4 [] c = "5" -> 5 [] c = "6" -> 6 [] c = "7" -> 7
       [] c = "8" -> 8 [] c = "9" -> 9]

\* str.lower()
LowerChar(c) == IF c \in DOMAIN UpperToLower THEN UpperToLower[c] ELSE c
Lower(text) == [i \in 1..Len(text) |-> LowerChar(text[i])]

\* \s
IsSpace(c) == c \in {" ", "\t", "\n"}
\* \w
IsWord(c) == c \in LowerLetters \/ c \in DOMAIN UpperToLower \/ c \in Digits \/ c = "_"
\* [a-zA-Z0-9\s\-\/]
IsLabelChar(c) ==
  c \in LowerLetters \/ c \in DOMAIN UpperToLower \/ c \in Digits \/ IsSpace(c)
    \/ c = "-" \/ c = "/"

\* `kw in text' of Python, for a non-empty kw
Contains(text, kw) ==
  \E i \in 1..(Len(text) - Len(kw) + 1) :
    text[i] = kw[1] /\ SubSeq(text, i, i + Len(kw) - 1) = kw

ContainsAny(text, kws) == \E k \in 1..Len(kws) : Contains(text, kws[k])

\* str.strip()
RECURSIVE LStrip(_)
LStrip(t) == IF t # <<>> /\ IsSpace(Head(t)) THEN LStrip(Tail(t)) ELSE t
RECURSIVE RStrip(_)
RStrip(t) ==
  IF t # <<>> /\ IsSpace(t[Len(t)]) THEN RStrip(SubSeq(t, 1, Len(t) - 1)) ELSE t
Strip(t) == RStrip(LStrip(t))

\* ' '.join(labels)
RECURSIVE JoinSpace(_)
JoinSpace(labels) ==
  IF labels = <<>> THEN <<>>
  ELSE IF Len(labels) = 1 THEN labels[1]
  ELSE labels[1] \o <<" ">> \o JoinSpace(Tail(labels))

\* Optional values
None == <<>>
Some(v) == <<v>>
IsNone(o) == o = <<>>

(***************************************************************************)
(* Keyword tables of FallbackChartAgent.__init__.                          *)
(***************************************************************************)
bar_keywords ==
  << <<"b","a","r"," ","c","h","a","r","t">>,
     <<"b","a","r"," ","g","r","a","p","h">>,
     <<"b","a","r">>,
     <<"c","o","m","p","a","r","e">>,
     <<"c","o","m","p","a","r","i","s","o","n">>,
     <<"v","e","r","s","u","s">> >>

line_keywords ==
  << <<"l","i","n","e"," ","c","h","a","r","t">>,
     <<"l","i","n","e"," ","g","r","a","p","h">>,
     <<"l","i","n","e">>,
     <<"t","r","e","n","d">>,
     <<"o","v","e","r"," ","t","i","m","e">>,
     <<"t","i","m","e","l","i","n","e">> >>

bnr_keywords ==
  << <<"b","n","r">>,
     <<"y","e","l","l","o","w">>,
     <<"n","e","w","s">>,
     <<"r","a","d","i","o">>,
     <<"b","r","o","a","d","c","a","s","t">> >>

fd_keywords ==
  << <<"f","d">>,
     <<"t","e","a","l">>,
     <<"f","i","n","a","n","c","i","a","l">>,
     <<"f","i","n","a","n","c","i","e","e","l","e"," ","d","a","g","b","l","a","d">> >>

style_change_keywords ==
  << <<"c","h","a","n","g","e"," ","c","o","l","o","r">>,
     <<"c","h","a","n","g","e"," ","s","t","y","l","e">>,
     <<"u","s","e">>,
     <<"i","n">>,
     <<"c","o","l","o","r","s">>,
     <<"s","t","y","l","e">>,
     <<"m","a","k","e"," ","i","t">> >>

refusal_keywords ==
  << <<"w","e","a","t","h","e","r">>,
     <<"e","s","s","a","y">>,
     <<"j","o","k","e">>,
     <<"h","o","m","e","w","o","r","k">>,
     <<"w","r","i","t","e">>,
     <<"s","t","o","r","y">>,
     <<"c","o","d","e">>,
     <<"p","r","o","g","r","a","m">>,
     <<"c","a","l","c","u","l","a","t","e">>,
     <<"w","h","a","t"," ","i","s">>,
     <<"h","e","l","p"," ","m","e"," ","w","i","t","h">>,
     <<"p","i","e"," ","c","h","a","r","t">>,
     <<"s","c","a","t","t","e","r"," ","p","l","o","t">>,
     <<"h","i","s","t","o","g","r","a","m">> >>

\* the cue words of the back-reference test in analyze
back_reference_keywords ==
  << <<"p","r","e","v","i","o","u","s">>,
     <<"s","a","m","e">>,
     <<"e","a","r","l","i","e","r">>,
     <<"l","a","s","t">>,
     <<"t","h","a","t">> >>

\* the alternatives of time_patterns other than the year pattern 20\d{2}
time_words ==
  { <<"j","a","n">>, <<"f","e","b">>, <<"m","a","r">>, <<"a","p","r">>,
    <<"m","a","y">>, <<"j","u","n">>, <<"j","u","l">>, <<"a","u","g">>,
    <<"s","e","p">>, <<"o","c","t">>, <<"n","o","v">>, <<"d","e","c">>,
    <<"j","a","n","u","a","r","y">>, <<"f","e","b","r","u","a","r","y">>,
    <<"m","a","r","c","h">>, <<"a","p","r","i","l">>, <<"j","u","n","e">>,
    <<"j","u","l","y">>, <<"a","u","g","u","s","t">>,
    <<"s","e","p","t","e","m","b","e","r">>, <<"o","c","t","o","b","e","r">>,
    <<"n","o","v","e","m","b","e","r">>, <<"d","e","c","e","m","b","e","r">>,
    <<"q","1">>, <<"q","2">>, <<"q","3">>, <<"q","4">>,
    <<"m","o","n">>, <<"t","u","e">>, <<"w","e","d">>, <<"t","h","u">>,
    <<"f","r","i">>, <<"s","a","t">>, <<"s","u","n">>,
    <<"m","o","n","d","a","y">>, <<"t","u","e","s","d","a","y">>,
    <<"w","e","d","n","e","s","d","a","y">>, <<"t","h","u","r","s","d","a","y">>,
    <<"f","r","i","d","a","y">>, <<"s","a","t","u","r","d","a","y">>,
    <<"s","u","n","d","a","y">>,
    <<"w","e","e","k">>, <<"m","o","n","t","h">>, <<"q","u","a","r","t","e","r">>,
    <<"y","e","a","r">> }

(***************************************************************************)
(* _extract_data_pairs: re.findall of the key=value pattern                *)
(*   label group [a-zA-Z0-9\s\-\/]+ , blanks, [=:], blanks,                *)
(*   value group [0-9]+ , an optional dot, [0-9] zero or more times.       *)
(* The label group is greedy over a class that contains \s, so a match     *)
(* that starts at i takes the whole run of label characters from i, needs  *)
(* [=:] right after the run, then optional blanks and at least one digit;  *)
(* no shorter label can succeed, and a failed start fails for every later  *)
(* start inside the same run.                                              *)
(***************************************************************************)
RECURSIVE LabelRunEnd(_, _)
LabelRunEnd(text, i) ==
  IF i <= Len(text) /\ IsLabelChar(text[i]) THEN LabelRunEnd(text, i + 1) ELSE i

RECURSIVE SpaceRunEnd(_, _)
SpaceRunEnd(text, i) ==
  IF i <= Len(text) /\ IsSpace(text[i]) THEN SpaceRunEnd(text, i + 1) ELSE i

RECURSIVE DigitRunEnd(_, _)
DigitRunEnd(text, i) ==
  IF i <= Len(text) /\ text[i] \in Digits THEN DigitRunEnd(text, i + 1) ELSE i

RECURSIVE WordRunEnd(_, _)
WordRunEnd(text, i) ==
  IF i <= Len(text) /\ IsWord(text[i]) THEN WordRunEnd(text, i + 1) ELSE i

\* one attempt of the pattern at position i, given r, the end of the label
\* run from i, s, the end of the blanks after text[r], and d1, the end of
\* the digits from s; next is where the scan goes on
MatchSpan(text, i, r, s, d1) ==
  IF r > i /\ r <= Len(text) /\ text[r] \in {"=", ":"} /\ d1 > s
  THEN LET d2 == IF d1 <= Len(text) /\ text[d1] = "."
                 THEN DigitRunEnd(text, d1 + 1) ELSE d1
       IN  [ok |-> TRUE, next |-> d2,
            label |-> SubSeq(text, i, r - 1), value |-> SubSeq(text, s, d2 - 1)]
  ELSE [ok |-> FALSE, next |-> IF r > i THEN r ELSE i + 1,
        label |-> <<>>, value |-> <<>>]

MatchAt(text, i) ==
  MatchSpan(text, i, LabelRunEnd(text, i),
            SpaceRunEnd(text, LabelRunEnd(text, i) + 1),
            DigitRunEnd(text, SpaceRunEnd(text, LabelRunEnd(text, i) + 1)))

\* re.findall: the non-overlapping matches, left to right
RECURSIVE FindAll(_, _)
RECURSIVE FindAllAfter(_, _)
FindAllAfter(text, m) ==
  IF m.ok THEN <<[label |-> m.label, value |-> m.value]>> \o FindAll(text, m.next)
  ELSE FindAll(text, m.next)
FindAll(text, i) ==
  IF i > Len(text) THEN <<>> ELSE FindAllAfter(text, MatchAt(text, i))

RECURSIVE IntVal(_)
IntVal(ds) == IF ds = <<>> THEN 0 ELSE 10 * IntVal(SubSeq(ds, 1, Len(ds) - 1)) + DigitVal[ds[Len(ds)]]

\* float() of a matched value, in tenths (the inputs carry at most one decimal)
ParseFloat(v) ==
  LET p  == DigitRunEnd(v, 1)
      ip == SubSeq(v, 1, p - 1)
      fp == SubSeq(v, p + 1, Len(v))
  IN  10 * IntVal(ip) + (IF fp = <<>> THEN 0 ELSE DigitVal[fp[1]])

\* PairsOf with the test `len(matches) < 1': one pair would pass as data
PairsOf_SinglePair(matches) ==
  IF Len(matches) < 1 THEN None
  ELSE Some([x_labels |-> [k \in 1..Len(matches) |-> Strip(matches[k].label)],
             y_values |-> [k \in 1..Len(matches) |-> ParseFloat(matches[k].value)]])

\* lines 50-59: None, or Some of the labels and values of the matches
PairsOf(matches) ==
  IF Len(matches) < 2 THEN None
  ELSE Some([x_labels |-> [k \in 1..Len(matches) |-> Strip(matches[k].label)],
             y_values |-> [k \in 1..Len(matches) |-> ParseFloat(matches[k].value)]])

_extract_data_pairs(message) == PairsOf(FindAll(message, 1))

(***************************************************************************)
(* _is_time_series.  Every alternative of time_patterns is made of word    *)
(* characters between two \b, so a match is a maximal run of word          *)
(* characters that equals an alternative.                                  *)
(***************************************************************************)
\* 20\d{2}
IsYear20(tok) ==
  Len(tok) = 4 /\ tok[1] = "2" /\ tok[2] = "0" /\ tok[3] \in Digits /\ tok[4] \in Digits

\* ^(q|Q)[1-4]$
IsQuarter(tok) ==
  Len(tok) = 2 /\ tok[1] \in {"q", "Q"} /\ tok[2] \in {"1", "2", "3", "4"}

SearchTimePatterns(text) ==
  \E i \in 1..Len(text) :
    /\ IsWord(text[i])
    /\ (i = 1 \/ ~IsWord(text[i - 1]))
    /\ LET tok == SubSeq(text, i, WordRunEnd(text, i) - 1)
       IN  tok \in time_words \/ IsYear20(tok)

_is_time_series(x_labels) ==
  \/ SearchTimePatterns(Lower(JoinSpace(x_labels)))
  \/ \A k \in 1..Len(x_labels) : IsQuarter(Strip(x_labels[k]))
  \/ \A k \in 1..Len(x_labels) : IsYear20(Strip(x_labels[k]))

(***************************************************************************)
(* _detect_chart_type, _detect_color_scheme, _is_style_change_request,     *)
(* _should_refuse, _generate_title.                                        *)
(***************************************************************************)
\* the threshold of `len(x_labels) >= 10'
ManyLabels == 10

_detect_chart_type(message, x_labels) ==
  LET message_lower == Lower(message)
  IN  IF ContainsAny(message_lower, bar_keywords) THEN "bar"
      ELSE IF ContainsAny(message_lower, line_keywords) THEN "line"
      ELSE IF _is_time_series(x_labels) THEN "line"
      ELSE IF Len(x_labels) >= ManyLabels THEN "line"
      ELSE "bar"

\* _detect_color_scheme with the FD loop before the BNR loop
_detect_color_scheme_FdFirst(message) ==
  IF ContainsAny(Lower(message), fd_keywords) THEN "fd"
  ELSE IF ContainsAny(Lower(message), bnr_keywords) THEN "bnr"
  ELSE "None"

_detect_color_scheme(message) ==
  LET message_lower == Lower(message)
  IN  IF ContainsAny(message_lower, bnr_keywords) THEN "bnr"
      ELSE IF ContainsAny(message_lower, fd_keywords) THEN "fd"
      ELSE "None"

\* _is_style_change_request without the test that the message holds no data
_is_style_change_request_IgnoresData(message) ==
  LET message_lower     == Lower(message)
      has_style_keyword == ContainsAny(message_lower, style_change_keywords)
      has_color_keyword == ContainsAny(message_lower, bnr_keywords \o fd_keywords)
  IN  has_style_keyword /\ has_color_keyword

_is_style_change_request(message) ==
  LET message_lower     == Lower(message)
      has_style_keyword == ContainsAny(message_lower, style_change_keywords)
      has_color_keyword == ContainsAny(message_lower, bnr_keywords \o fd_keywords)
      has_data          == ~IsNone(_extract_data_pairs(message))
  IN  has_style_keyword /\ has_color_keyword /\ ~has_data

_should_refuse(message) == ContainsAny(Lower(message), refusal_keywords)

_generate_title(chart_type, x_labels) ==
  IF _is_time_series(x_labels)
  THEN (IF chart_type = "bar" THEN "Bar Chart Over Time" ELSE "Line Chart Over Time")
  ELSE (IF chart_type = "bar" THEN "Bar Chart Comparison" ELSE "Line Chart Comparison")

(***************************************************************************)
(* ChartData (models/schemas.py) and the reasons analyze gives.            *)
(***************************************************************************)
ChartData(is_valid, reason, chart_type, x_labels, y_values, title, x_label, y_label, color_scheme) ==
  [is_valid |-> is_valid, reason |-> reason, chart_type |-> chart_type,
   title |-> title, x_label |-> x_label, y_label |-> y_label,
   x_labels |-> x_labels, y_values |-> y_values, color_scheme |-> color_scheme]

\* ChartData(is_valid=False, reason=...): every other field keeps its default None
RefusalData(reason) ==
  ChartData(FALSE, reason, "None", None, None, "None", "None", "None", "None")

REASON_REFUSE ==
  "I can only help you create bar or line charts. Please ask me to make a chart with some data!"
REASON_NO_STYLE_DATA ==
  "I couldn't find previous chart data to apply the new style to. Please provide the data again."
REASON_NO_PREVIOUS ==
  "I couldn't find previous chart data. Please provide the data points."
REASON_NO_DATA ==
  "I couldn't find any data to chart. Please provide data in format like: A=10, B=20, C=30"
\* f"I encountered an error processing your request: {str(e)}"
ReasonError(exc) == "I encountered an error processing your request: " \o exc

(***************************************************************************)
(* A conversation turn as analyze receives it: is_dict is FALSE for an     *)
(* entry that is no mapping (msg.get raises AttributeError); role is       *)
(* "None" when the key is missing; content is None when the key is         *)
(* missing (msg['content'] raises KeyError); metadata is None, or a        *)
(* mapping given by its key set and the values under x_labels, y_values.   *)
(***************************************************************************)
Turn(role, content, metadata) ==
  [is_dict |-> TRUE, role |-> role, content |-> content, metadata |-> metadata]

NotADict == [is_dict |-> FALSE, role |-> "None", content |-> None, metadata |-> None]

Metadata(keys, x_labels, y_values) ==
  [keys |-> keys, x_labels |-> x_labels, y_values |-> y_values]

\* `msg.get('metadata')' is truthy: a non-empty mapping
MetadataTruthy(msg) == ~IsNone(msg.metadata) /\ msg.metadata[1].keys # {}

\* the outcome of a step that may raise: exc is "None" or the exception's name
Returned(v) == [exc |-> "None", value |-> v]
Raised(exc) == [exc |-> exc, value |-> None]

(***************************************************************************)
(* _get_previous_chart_data                                                *)
(***************************************************************************)
\* the first loop without reversed(): the oldest chart turn would win
RECURSIVE ScanAssistantTurns_Oldest(_, _)
ScanAssistantTurns_Oldest(history, k) ==
  IF k = 0 THEN Returned(None)
  ELSE LET msg == history[Len(history) - k + 1]
       IN  IF ~msg.is_dict THEN Raised("AttributeError")
           ELSE IF /\ msg.role = "assistant"
                   /\ MetadataTruthy(msg)
                   /\ {"x_labels", "y_values"} \subseteq msg.metadata[1].keys
                THEN Returned(Some([x_labels |-> msg.metadata[1].x_labels,
                                    y_values |-> msg.metadata[1].y_values]))
                ELSE ScanAssistantTurns_Oldest(history, k - 1)

\* first loop: reversed(history), assistant turns with x_labels and y_values
RECURSIVE ScanAssistantTurns(_, _)
ScanAssistantTurns(history, k) ==
  IF k = 0 THEN Returned(None)
  ELSE LET msg == history[k]
       IN  IF ~msg.is_dict THEN Raised("AttributeError")
           ELSE IF /\ msg.role = "assistant"
                   /\ MetadataTruthy(msg)
                   /\ {"x_labels", "y_values"} \subseteq msg.metadata[1].keys
                THEN Returned(Some([x_labels |-> msg.metadata[1].x_labels,
                                    y_values |-> msg.metadata[1].y_values]))
                ELSE ScanAssistantTurns(history, k - 1)

\* second loop: reversed(history), user turns whose content holds data
RECURSIVE ScanUserTurns(_, _)
RECURSIVE ScanUserTurn(_, _, _)
\* lines 148-150, with data the extraction from the content of turn k
ScanUserTurn(history, k, data) ==
  IF ~IsNone(data)
  THEN Returned(Some([x_labels |-> Some(data[1].x_labels),
                      y_values |-> Some(data[1].y_values)]))
  ELSE ScanUserTurns(history, k - 1)
ScanUserTurns(history, k) ==
  IF k = 0 THEN Returned(None)
  ELSE IF ~history[k].is_dict THEN Raised("AttributeError")
  ELSE IF history[k].role = "user"
       THEN IF IsNone(history[k].content) THEN Raised("KeyError")
            ELSE ScanUserTurn(history, k, _extract_data_pairs(history[k].content[1]))
       ELSE ScanUserTurns(history, k - 1)

\* the two loops in the other order: a user turn with data would win
AfterAssistantScan_UserFirst(conversation_history, first) ==
  IF first.exc # "None" THEN first
  ELSE IF ~IsNone(ScanUserTurns(conversation_history, Len(conversation_history)).value)
       THEN ScanUserTurns(conversation_history, Len(conversation_history))
       ELSE first

\* the second loop runs when the first one returned nothing
AfterAssistantScan(conversation_history, first) ==
  IF first.exc # "None" \/ ~IsNone(first.value) THEN first
  ELSE ScanUserTurns(conversation_history, Len(conversation_history))

\* _get_previous_chart_data without its first loop
_get_previous_chart_data_UserTurnsOnly(conversation_history) ==
  IF conversation_history = <<>> THEN Returned(None)
  ELSE ScanUserTurns(conversation_history, Len(conversation_history))

_get_previous_chart_data(conversation_history) ==
  IF conversation_history = <<>> THEN Returned(None)
  ELSE AfterAssistantScan(conversation_history,
         ScanAssistantTurns(conversation_history, Len(conversation_history)))

(***************************************************************************)
(* FallbackChartAgent.analyze                                              *)
(***************************************************************************)
\* lines 204-213: the ChartData of the style-change branch
StyleChangeChart(user_message, x_labels, y_values, chart_type) ==
  ChartData(TRUE, "None", chart_type, Some(x_labels), y_values,
            _generate_title(chart_type, x_labels),
            IF chart_type = "bar" THEN "Category" ELSE "Time",
            "Value", _detect_color_scheme(user_message))

\* lines 200-213.  x_labels of None makes ' '.join(x_labels) raise TypeError
\* in _is_time_series, at the latest when the title is made.
StyleChangeDecision(user_message, previous_data) ==
  IF IsNone(previous_data.x_labels) THEN Raised("TypeError")
  ELSE Returned(StyleChangeChart(user_message, previous_data.x_labels[1],
                                 previous_data.y_values,
                                 _detect_chart_type(user_message, previous_data.x_labels[1])))

\* lines 246-260: the ChartData of the extraction / back-reference branch
ExtractionChart(user_message, x_labels, y_values, chart_type) ==
  ChartData(TRUE, "None", chart_type, Some(x_labels), y_values,
            _generate_title(chart_type, x_labels),
            IF _is_time_series(x_labels) THEN "Time" ELSE "Category",
            "Value", _detect_color_scheme(user_message))

\* lines 240-260
ExtractionDecision(user_message, data) ==
  IF IsNone(data.x_labels) THEN Raised("TypeError")
  ELSE Returned(ExtractionChart(user_message, data.x_labels[1], data.y_values,
                                _detect_chart_type(user_message, data.x_labels[1])))

\* StyleChangeBranch giving the reason of a message without data
StyleChangeBranch_NoDataReason(user_message, previous_data) ==
  IF previous_data.exc # "None" THEN Raised(previous_data.exc)
  ELSE IF ~IsNone(previous_data.value)
       THEN StyleChangeDecision(user_message, previous_data.value[1])
       ELSE Returned(RefusalData(REASON_NO_DATA))

\* lines 199-218, with previous_data the outcome of _get_previous_chart_data
StyleChangeBranch(user_message, previous_data) ==
  IF previous_data.exc # "None" THEN Raised(previous_data.exc)
  ELSE IF ~IsNone(previous_data.value)
       THEN StyleChangeDecision(user_message, previous_data.value[1])
       ELSE Returned(RefusalData(REASON_NO_STYLE_DATA))

\* BackReferenceBranch giving the reason of the branch without a cue
BackReferenceBranch_NoDataReason(user_message, previous_data) ==
  IF previous_data.exc # "None" THEN Raised(previous_data.exc)
  ELSE IF ~IsNone(previous_data.value)
       THEN ExtractionDecision(user_message, previous_data.value[1])
       ELSE Returned(RefusalData(REASON_NO_DATA))

\* lines 227-233, with previous_data the outcome of _get_previous_chart_data
BackReferenceBranch(user_message, previous_data) ==
  IF previous_data.exc # "None" THEN Raised(previous_data.exc)
  ELSE IF ~IsNone(previous_data.value)
       THEN ExtractionDecision(user_message, previous_data.value[1])
       ELSE Returned(RefusalData(REASON_NO_PREVIOUS))

\* lines 223-260, with data the outcome of _extract_data_pairs(user_message)
ExtractionBranch(user_message, conversation_history, data) ==
  IF IsNone(data)
  THEN IF /\ conversation_history # <<>>
          /\ ContainsAny(Lower(user_message), back_reference_keywords)
       THEN BackReferenceBranch(user_message,
                                _get_previous_chart_data(conversation_history))
       ELSE Returned(RefusalData(REASON_NO_DATA))
  ELSE ExtractionDecision(user_message,
                          [x_labels |-> Some(data[1].x_labels),
                           y_values |-> Some(data[1].y_values)])

\* AnalyzeBody with the refusal check skipped for a message that holds data
AnalyzeBody_DataBeforeRefusal(user_message, conversation_history) ==
  IF _should_refuse(user_message) /\ IsNone(_extract_data_pairs(user_message))
  THEN Returned(RefusalData(REASON_REFUSE))
  ELSE IF _is_style_change_request(user_message)
  THEN StyleChangeBranch(user_message, _get_previous_chart_data(conversation_history))
  ELSE ExtractionBranch(user_message, conversation_history,
                        _extract_data_pairs(user_message))

\* the body of the try block, lines 188-260
AnalyzeBody(user_message, conversation_history) ==
  IF _should_refuse(user_message) THEN Returned(RefusalData(REASON_REFUSE))
  ELSE IF _is_style_change_request(user_message)
  THEN StyleChangeBranch(user_message, _get_previous_chart_data(conversation_history))
  ELSE ExtractionBranch(user_message, conversation_history,
                        _extract_data_pairs(user_message))

\* analyze without its handler: the exception reaches the caller
HandleException_Reraise(body) ==
  IF body.exc # "None"
  THEN [raised |-> TRUE, caught |-> "None", chart_data |-> None]
  ELSE [raised |-> FALSE, caught |-> "None", chart_data |-> Some(body.value)]

\* except Exception as e (lines 262-266): a refusal that quotes e.  raised
\* tells whether the call ends by raising to its caller, caught names the
\* exception the handler turned into a decision.
HandleException(body) ==
  IF body.exc # "None"
  THEN [raised |-> FALSE, caught |-> body.exc,
        chart_data |-> Some(RefusalData(ReasonError(body.exc)))]
  ELSE [raised |-> FALSE, caught |-> "None", chart_data |-> Some(body.value)]

analyze(user_message, conversation_history) ==
  HandleException(AnalyzeBody(user_message, conversation_history))

(***************************************************************************)
(* analyze_chart_request (chart_agent.py): the LLM path and its fallback.  *)
(***************************************************************************)
\* conversation_history[-10:]
RecentTurns == 10
LastTurns(history) ==
  IF Len(history) <= RecentTurns THEN history
  ELSE SubSeq(history, Len(history) - RecentTurns + 1, Len(history))

\* lines 207-219: the messages array is built inside the try block; a turn
\* that is no mapping, or a user/assistant turn without content, raises
RECURSIVE BuildMessages(_, _)
BuildMessages(recent_history, k) ==
  IF k > Len(recent_history) THEN Returned(None)
  ELSE LET msg == recent_history[k]
       IN  IF ~msg.is_dict THEN Raised("AttributeError")
           ELSE IF msg.role \in {"user", "assistant"} /\ IsNone(msg.content)
                THEN Raised("KeyError")
                ELSE BuildMessages(recent_history, k + 1)

\* the steps of the LLM path that can fail once the messages are built:
\* client.chat.completions.create, json.loads, ChartData(**data)
LLMFailures == {"network_error", "json_error", "schema_error"}

\* decisions an LLM reply can carry when every step succeeds
LLMReplies ==
  { RefusalData("I can only create bar or line charts."),
    ChartData(TRUE, "None", "line", Some(<< <<"2","0","2","0">>, <<"2","0","2","1">> >>),
              Some(<<250, 260>>), "Student debt", "Year", "Billion euros", "fd") }

(***************************************************************************)
(* The inputs: messages put together from a refusal word, chart-type       *)
(* words, a style word or a back-reference cue, colour words and data;     *)
(* and histories of at most MaxHist turns, well-formed or not.             *)
(***************************************************************************)
RefusalWords == { <<>>, <<"j","o","k","e"," ">> }
TypeWords    ==
  { <<>>, <<"b","a","r"," ">>, <<"l","i","n","e"," ">>,
    <<"c","o","m","p","a","r","e"," ">>,
    <<"c","o","m","p","a","r","e"," ">> \o <<"l","i","n","e"," ">> }
PhraseWords  == { <<>>, <<"u","s","e"," ">>, <<"s","a","m","e"," ">> }
ColorWords   == { <<>>, <<"B","N","R"," ">>, <<"t","e","a","l"," ">>, <<"t","e","a","l"," ">> \o <<"B","N","R"," ">> }

\* n pairs a=1, b=2, ... with one-letter labels that carry no time word
PairLetters == <<"a","b","c","d","e","f","g","h","i","j","k">>
PairDigits  == <<"1","2","3","4","5","6","7","8","9","0","1">>
RECURSIVE CategoryPairs(_)
CategoryPairs(n) ==
  IF n = 0 THEN <<>>
  ELSE (IF n = 1 THEN <<>> ELSE CategoryPairs(n - 1) \o <<",", " ">>)
       \o <<PairLetters[n], "=", PairDigits[n]>>

DataTexts ==
  { <<>>,
    <<":", " ">> \o CategoryPairs(1),
    <<":", " ">> \o CategoryPairs(2),
    <<":"," ","Q","1","=","1",".","5",","," ","Q","2","=","2">>,
    <<":", " ">> \o CategoryPairs(ManyLabels - 1),
    <<":", " ">> \o CategoryPairs(ManyLabels) }

\* a refusal word is combined with every part but the chart-type words
MessageParts ==
  { p \in RefusalWords \X TypeWords \X PhraseWords \X ColorWords \X DataTexts :
      p[1] = <<>> \/ p[2] = <<>> }

Messages == { p[1] \o p[2] \o p[3] \o p[4] \o p[5] : p \in MessageParts }

ChartKeys == {"chart_id", "chart_type", "x_labels", "y_values", "title"}

HistoryTurns ==
  { \* a user turn that carries data
    Turn("user", Some(<<"A","p","p","l","e","=","1",","," ","P","e","a","r","=","2",".","5">>), None),
    \* a user turn without content
    Turn("user", None, None),
    \* an assistant refusal: no metadata
    Turn("assistant", Some(<<"n","o">>), None),
    \* assistant turns that mirror a chart
    Turn("assistant", Some(<<"o","k">>),
         Some(Metadata(ChartKeys, Some(<< <<"Q","1">>, <<"Q","2">> >>), Some(<<100, 150>>)))),
    Turn("assistant", Some(<<"o","k">>),
         Some(Metadata(ChartKeys, Some(<< <<"N">>, <<"S">>, <<"E">> >>), Some(<<30, 45, 50>>)))),
    \* metadata whose two lists differ in length
    Turn("assistant", Some(<<"o","k">>),
         Some(Metadata(ChartKeys, Some(<< <<"N">>, <<"S">> >>), Some(<<30>>)))),
    \* an entry that is no mapping
    NotADict }

Histories == UNION { [1..n -> HistoryTurns] : n \in 0..MaxHist }

(***************************************************************************)
(* State: one call of the classifier on one input.                         *)
(***************************************************************************)
VARIABLES
  user_message,          \* the message of the request
  conversation_history,  \* the history handed to the classifier
  HAS_OPENAI_KEY,        \* chart_agent.HAS_OPENAI_KEY, fixed at import
  pc,                    \* "ready", or the entry point that has returned
  llm,                   \* "not_called", "ok", or the step of the LLM path that failed
  chart_data,            \* None, or Some of the ChartData returned
  caught,                \* the exception analyze's handler absorbed, or "None"
  raised,                \* TRUE iff the call ended by raising to its caller
  sessions,              \* the content of settings.SESSION_FILE: session id -> SessionData
  now,                   \* datetime.now()
  call,                  \* the last call or request that completed, with its outcome
  style_set,             \* per session, the style of the last set_style_preference
  tracked,               \* per session, the interactions that completed, by outcome
  inflight,              \* per session, the mutation between its load and its save
  applied,               \* per session, the mutations that completed, in order
  memory,                \* the content of persistent-memory.json
  awaiting,              \* the chat requests suspended at their await
  sampler,               \* one call of ChartGenerator._smart_sample_labels
  parser                 \* one call of ExcelParser._determine_chart_type

classifierVars == <<user_message, conversation_history, HAS_OPENAI_KEY, pc, llm,
                    chart_data, caught, raised>>
storeVars == <<sessions, now, call, style_set, tracked, inflight, applied, memory,
              awaiting>>
samplerVars == <<sampler>>
parserVars == <<parser>>

vars == <<user_message, conversation_history, HAS_OPENAI_KEY, pc, llm, chart_data,
          caught, raised, sessions, now, call, style_set, tracked, inflight, applied,
          memory, awaiting, sampler, parser>>

\* the session ids of the requests
SessionIds == {"s1", "s2"}

\* the session file right after _ensure_file_exists wrote "{}"
EmptyStore == [s \in SessionIds |-> None]

NoCall == [op |-> "None", session_id |-> "None"]

\* the classifier is not called
ClassifierIdle ==
  /\ user_message = <<>>
  /\ conversation_history = <<>>
  /\ HAS_OPENAI_KEY = FALSE
  /\ pc = "idle"
  /\ llm = "not_called"
  /\ chart_data = None
  /\ caught = "None"
  /\ raised = FALSE

\* no request reaches the session store
StoreIdle ==
  /\ sessions = EmptyStore
  /\ now = 0
  /\ call = NoCall
  /\ style_set = [s \in SessionIds |-> "None"]
  /\ tracked = [s \in SessionIds |-> <<>>]
  /\ inflight = [s \in SessionIds |-> None]
  /\ applied = [s \in SessionIds |-> <<>>]
  /\ memory = [color_scheme |-> "fd"]
  /\ awaiting = {}

\* the sampler is not called
SamplerIdle == sampler = [pc |-> "idle"]

\* the spreadsheet parser is not called
ParserIdle == parser = [pc |-> "idle"]

\* the rule-based engine called on its own; settings.OPENAI_API_KEY is "" by
\* default, so HAS_OPENAI_KEY is FALSE
Init ==
  /\ user_message \in Messages
  /\ conversation_history \in Histories
  /\ HAS_OPENAI_KEY = FALSE
  /\ pc = "ready"
  /\ llm = "not_called"
  /\ chart_data = None
  /\ caught = "None"
  /\ raised = FALSE
  /\ StoreIdle
  /\ SamplerIdle /\ ParserIdle

\* what a call of fallback_agent.analyze that ended as res leaves in the state
FallbackResult(res) ==
  /\ chart_data' = res.chart_data
  /\ caught' = res.caught
  /\ raised' = res.raised

\* a direct call of fallback_agent.analyze
Analyze ==
  /\ pc = "ready"
  /\ pc' = "analyze"
  /\ FallbackResult(analyze(user_message, conversation_history))
  /\ UNCHANGED <<user_message, conversation_history, HAS_OPENAI_KEY, llm>>
  /\ UNCHANGED <<storeVars, samplerVars, parserVars>>

\* analyze_chart_request without an API key (lines 198-200)
RequestWithoutKey ==
  /\ pc = "ready"
  /\ ~HAS_OPENAI_KEY
  /\ pc' = "analyze_chart_request"
  /\ FallbackResult(analyze(user_message, conversation_history))
  /\ UNCHANGED <<user_message, conversation_history, HAS_OPENAI_KEY, llm>>
  /\ UNCHANGED <<storeVars, samplerVars, parserVars>>

\* analyze_chart_request, LLM path, every step succeeds (lines 203-231)
RequestLLMSuccess ==
  /\ pc = "ready"
  /\ HAS_OPENAI_KEY
  /\ BuildMessages(LastTurns(conversation_history), 1).exc = "None"
  /\ \E reply \in LLMReplies : chart_data' = Some(reply)
  /\ pc' = "analyze_chart_request"
  /\ llm' = "ok"
  /\ UNCHANGED <<user_message, conversation_history, HAS_OPENAI_KEY, caught, raised>>
  /\ UNCHANGED <<storeVars, samplerVars, parserVars>>

\* RequestLLMFailure with a handler that lets a schema error through
RequestLLMFailure_SchemaErrorEscapes ==
  /\ pc = "ready"
  /\ HAS_OPENAI_KEY
  /\ IF BuildMessages(LastTurns(conversation_history), 1).exc # "None"
     THEN llm' = "history_error"
     ELSE llm' \in LLMFailures
  /\ pc' = "analyze_chart_request"
  /\ IF llm' = "schema_error"
     THEN chart_data' = None /\ caught' = "None" /\ raised' = TRUE
     ELSE FallbackResult(analyze(user_message, conversation_history))
  /\ UNCHANGED <<user_message, conversation_history, HAS_OPENAI_KEY>>
  /\ UNCHANGED <<storeVars, samplerVars, parserVars>>

\* analyze_chart_request, LLM path, a step raises (lines 233-236)
RequestLLMFailure ==
  /\ pc = "ready"
  /\ HAS_OPENAI_KEY
  /\ IF BuildMessages(LastTurns(conversation_history), 1).exc # "None"
     THEN llm' = "history_error"
     ELSE llm' \in LLMFailures
  /\ pc' = "analyze_chart_request"
  /\ FallbackResult(analyze(user_message, conversation_history))
  /\ UNCHANGED <<user_message, conversation_history, HAS_OPENAI_KEY>>
  /\ UNCHANGED <<storeVars, samplerVars, parserVars>>

Next == Analyze

Spec == Init /\ [][Next]_vars

\* analyze_chart_request called with or without an API key, on the messages
\* without refusal and chart-type words
RequestMessages ==
  { p[3] \o p[4] \o p[5] : p \in { q \in MessageParts : q[1] = <<>> /\ q[2] = <<>> } }

InitRequest ==
  /\ user_message \in RequestMessages
  /\ conversation_history \in Histories
  /\ HAS_OPENAI_KEY \in BOOLEAN
  /\ pc = "ready"
  /\ llm = "not_called"
  /\ chart_data = None
  /\ caught = "None"
  /\ raised = FALSE
  /\ StoreIdle
  /\ SamplerIdle /\ ParserIdle

NextRequest ==
  \/ RequestWithoutKey
  \/ RequestLLMSuccess
  \/ RequestLLMFailure

SpecRequest == InitRequest /\ [][NextRequest]_vars

(***************************************************************************)
(* The engine on messages made of prose, context words and a list of       *)
(* pairs, the list set off by a colon or not.                              *)
(***************************************************************************)
ProseWords ==
  { <<>>, <<"b","a","r"," ">>, <<"l","i","n","e"," ">>, <<"c","h","a","r","t"," ">> }

ContextWords ==
  { <<>>, <<"r","e","v","e","n","u","e"," ">>, <<"m","a","r","k","e","t"," ">>,
    <<"t","e","a","l"," ">>, <<"B","N","R"," ">> \o <<"p","r","o","f","i","t"," ">> }

Separators == { <<>>, <<":", " ">> }

\* n pairs `a = 1, b = 2, ...' with blanks around the equals sign
RECURSIVE SpacedPairs(_)
SpacedPairs(n) ==
  IF n = 0 THEN <<>>
  ELSE (IF n = 1 THEN <<>> ELSE SpacedPairs(n - 1) \o <<",", " ">>)
       \o <<PairLetters[n], " ", "=", " ", PairDigits[n]>>

\* the pair lists, each with the number of its pairs
PairLists ==
  { [n |-> 2, text |-> CategoryPairs(2)], [n |-> 3, text |-> CategoryPairs(3)],
    [n |-> 2, text |-> SpacedPairs(2)],   [n |-> 3, text |-> SpacedPairs(3)] }

ExtractParts == ProseWords \X ContextWords \X Separators \X PairLists

ExtractMessages == { p[1] \o p[2] \o p[3] \o p[4].text : p \in ExtractParts }

ExtractHistories ==
  { <<>>,
    <<Turn("assistant", Some(<<"o","k">>),
           Some(Metadata(ChartKeys, Some(<< <<"Q","1">>, <<"Q","2">> >>), Some(<<100, 150>>))))>> }

InitExtract ==
  /\ user_message \in ExtractMessages
  /\ conversation_history \in ExtractHistories
  /\ HAS_OPENAI_KEY = FALSE
  /\ pc = "ready"
  /\ llm = "not_called"
  /\ chart_data = None
  /\ caught = "None"
  /\ raised = FALSE
  /\ StoreIdle
  /\ SamplerIdle /\ ParserIdle

NextExtract == Analyze

SpecExtract == InitExtract /\ [][NextExtract]_vars

(***************************************************************************)
(* Properties of the rule-based engine.  Decided holds once the result in  *)
(* chart_data was made by fallback_agent.analyze.                          *)
(***************************************************************************)
Decided == pc # "ready" /\ llm # "ok" /\ chart_data # None

Accepted == Decided /\ chart_data[1].is_valid

HasAny(kws) == ContainsAny(Lower(user_message), kws)

HasData == ~IsNone(_extract_data_pairs(user_message))

\* an assistant turn whose metadata has x_labels and y_values
ChartTurn(msg) ==
  /\ msg.is_dict
  /\ msg.role = "assistant"
  /\ MetadataTruthy(msg)
  /\ {"x_labels", "y_values"} \subseteq msg.metadata[1].keys

HasChartTurn == \E i \in 1..Len(conversation_history) : ChartTurn(conversation_history[i])

LatestChartTurn ==
  conversation_history[
    CHOOSE i \in 1..Len(conversation_history) :
      /\ ChartTurn(conversation_history[i])
      /\ \A j \in (i + 1)..Len(conversation_history) : ~ChartTurn(conversation_history[j])]

\* every turn is a mapping
AllMappings == \A i \in 1..Len(conversation_history) : conversation_history[i].is_dict

\* the Conversation Resolver ends without data and without raising
NoPreviousData ==
  /\ _get_previous_chart_data(conversation_history).exc = "None"
  /\ IsNone(_get_previous_chart_data(conversation_history).value)

\* C1: a message with a refusal keyword is refused with the fixed reason and
\* without chart data, whatever the history and whatever else it holds.
C1_RefusalPriority ==
  (pc # "ready" /\ llm # "ok" /\ HasAny(refusal_keywords)) =>
    /\ ~raised
    /\ chart_data = Some(RefusalData(REASON_REFUSE))

C1_Witness ==
  /\ Decided
  /\ HasAny(refusal_keywords)
  /\ HasData
  /\ HasChartTurn
  /\ chart_data = Some(RefusalData(REASON_REFUSE))

\* the explicit keywords of the claim: 'bar chart', 'bar graph', 'bar'
explicitBarKeywords == SubSeq(bar_keywords, 1, 3)

\* C2: in an accepted decision an explicit bar keyword gives bar, and
\* otherwise an explicit line keyword gives line.
C2_ExplicitPriority ==
  Accepted =>
    /\ HasAny(explicitBarKeywords) => chart_data[1].chart_type = "bar"
    /\ (~HasAny(explicitBarKeywords) /\ HasAny(line_keywords))
         => chart_data[1].chart_type = "line"

\* C3: without an explicit bar or line keyword the chart type of an accepted
\* decision is line for a time series, else line for 10 or more labels, else
\* bar.
C3_DataShapeDefault ==
  (Accepted /\ ~HasAny(explicitBarKeywords) /\ ~HasAny(line_keywords)) =>
    chart_data[1].chart_type =
      (IF _is_time_series(chart_data[1].x_labels[1]) THEN "line"
       ELSE IF Len(chart_data[1].x_labels[1]) >= ManyLabels THEN "line"
       ELSE "bar")

\* C4: a style-change request on a history of mappings that holds a chart
\* turn is accepted with the data of the latest chart turn and the colour
\* scheme the message names.
C4_StyleChangeRecall ==
  (/\ pc # "ready" /\ llm # "ok"
   /\ ~HasAny(refusal_keywords)
   /\ _is_style_change_request(user_message)
   /\ AllMappings
   /\ HasChartTurn) =>
    /\ Accepted
    /\ chart_data[1].x_labels = LatestChartTurn.metadata[1].x_labels
    /\ chart_data[1].y_values = LatestChartTurn.metadata[1].y_values
    /\ chart_data[1].color_scheme = (IF HasAny(bnr_keywords) THEN "bnr" ELSE "fd")

C4_Witness ==
  /\ Accepted
  /\ _is_style_change_request(user_message)
  /\ Len(conversation_history) = 2
  /\ ChartTurn(conversation_history[1])
  /\ ChartTurn(conversation_history[2])
  /\ conversation_history[1].metadata # conversation_history[2].metadata
  /\ chart_data[1].x_labels = conversation_history[2].metadata[1].x_labels
  /\ chart_data[1].color_scheme = "bnr"

C6_LengthInvariant ==
  Accepted =>
    /\ ~IsNone(chart_data[1].x_labels)
    /\ ~IsNone(chart_data[1].y_values)
    /\ Len(chart_data[1].x_labels[1]) = Len(chart_data[1].y_values[1])

\* the message holds exactly one key=value pair
SinglePair == Len(FindAll(user_message, 1)) = 1

\* C7, as claimed: a message with exactly one pair and no refusal keyword is
\* refused with the no-data reason for every history (here: every history on
\* which the engine meets no exception).
C7_SinglePointAnyMessage ==
  (Decided /\ caught = "None" /\ SinglePair /\ ~HasAny(refusal_keywords)) =>
    chart_data = Some(RefusalData(REASON_NO_DATA))

\* C7, amended: a message with exactly one pair and no refusal keyword that
\* is no style-change request, and that has no back-reference cue or comes
\* with an empty history, is refused with the no-data reason.
C7_SinglePointRejection ==
  (/\ pc # "ready" /\ llm # "ok"
   /\ SinglePair
   /\ ~HasAny(refusal_keywords)
   /\ ~_is_style_change_request(user_message)
   /\ (~HasAny(back_reference_keywords) \/ conversation_history = <<>>)) =>
    chart_data = Some(RefusalData(REASON_NO_DATA))

C7_Witness ==
  /\ Decided
  /\ SinglePair
  /\ ~HasAny(refusal_keywords)
  /\ ~_is_style_change_request(user_message)
  /\ ~HasAny(back_reference_keywords)
  /\ HasChartTurn
  /\ chart_data = Some(RefusalData(REASON_NO_DATA))

\* the message reaches the extraction step and the extraction fails
ExtractionFails ==
  /\ ~HasAny(refusal_keywords)
  /\ ~_is_style_change_request(user_message)
  /\ ~HasData

\* C8, as claimed: a failed extraction with a cue and no previous data, the
\* history empty or not, gives the no-previous-data reason; the no-data
\* reason is used only without a cue.
C8_UnresolvedAnyHistory ==
  (Decided /\ ExtractionFails) =>
    /\ (HasAny(back_reference_keywords) /\ NoPreviousData)
         => chart_data = Some(RefusalData(REASON_NO_PREVIOUS))
    /\ chart_data[1].reason = REASON_NO_DATA => ~HasAny(back_reference_keywords)

\* C8, amended: with a cue and a non-empty history without previous data the
\* reason is the no-previous-data one; with a cue and an empty history it is
\* the no-data one; the no-data reason is used only without a cue or with an
\* empty history.
C8_UnresolvedBackReference ==
  (Decided /\ ExtractionFails) =>
    /\ (HasAny(back_reference_keywords) /\ conversation_history # <<>> /\ NoPreviousData)
         => chart_data = Some(RefusalData(REASON_NO_PREVIOUS))
    /\ (HasAny(back_reference_keywords) /\ conversation_history = <<>>)
         => chart_data = Some(RefusalData(REASON_NO_DATA))
    /\ chart_data[1].reason = REASON_NO_DATA
         => (~HasAny(back_reference_keywords) \/ conversation_history = <<>>)

C8_Witness ==
  /\ Decided
  /\ ExtractionFails
  /\ HasAny(back_reference_keywords)
  /\ conversation_history # <<>>
  /\ NoPreviousData
  /\ chart_data = Some(RefusalData(REASON_NO_PREVIOUS))

\* C9: analyze always returns a decision and never raises; an exception
\* inside it, and every other refusal, ends as is_valid = false with a
\* non-empty reason.
C9_Total ==
  (pc # "ready" /\ llm # "ok") =>
    /\ ~raised
    /\ chart_data # None
    /\ caught # "None" => ~chart_data[1].is_valid
    /\ ~chart_data[1].is_valid => chart_data[1].reason \notin {"None", ""}

C9_Witness ==
  /\ Decided
  /\ ~AllMappings
  /\ caught = "AttributeError"
  /\ ~raised
  /\ ~chart_data[1].is_valid
  /\ chart_data[1].reason = ReasonError("AttributeError")

\* C10: analyze_chart_request never raises; without an API key, and when a
\* step of the LLM path fails, its result is the one of the rule-based
\* engine on the same message and history.
C10_UpstreamDegradation ==
  pc = "analyze_chart_request" =>
    /\ ~raised
    /\ chart_data # None
    /\ llm # "ok" =>
         /\ chart_data = analyze(user_message, conversation_history).chart_data
         /\ caught = analyze(user_message, conversation_history).caught

C10_Witness ==
  /\ pc = "analyze_chart_request"
  /\ HAS_OPENAI_KEY
  /\ llm = "schema_error"
  /\ ~raised
  /\ Accepted

(***************************************************************************)
(* Properties of the keyword tables and of the extraction.                 *)
(***************************************************************************)
\* the FD keywords the claim lists
fdKeywordsClaimed ==
  << <<"f","d">>, <<"t","e","a","l">>, <<"f","i","n","a","n","c","i","a","l">>,
     <<"m","a","r","k","e","t">>, <<"i","n","v","e","s","t","m","e","n","t">>,
     <<"e","c","o","n","o","m","y">>, <<"b","u","s","i","n","e","s","s">>,
     <<"c","o","r","p","o","r","a","t","e">>, <<"r","e","v","e","n","u","e">>,
     <<"p","r","o","f","i","t">>,
     <<"f","i","n","a","n","c","i","e","e","l","e"," ","d","a","g","b","l","a","d">> >>

\* C12: an accepted message with a token of the claimed FD keyword list and
\* no BNR keyword has the colour scheme fd.
C12_FdContextKeywords ==
  (Accepted /\ HasAny(fdKeywordsClaimed) /\ ~HasAny(bnr_keywords)) =>
    chart_data[1].color_scheme = "fd"

\* the labels and values of the first n pairs of PairLetters / PairDigits
PairLabels(n) == [k \in 1..n |-> <<PairLetters[k]>>]
PairValues(n) == [k \in 1..n |-> 10 * DigitVal[PairDigits[k]]]

\* C13: for a message of prose followed by n >= 2 pairs, with or without a
\* colon after the prose and with or without blanks around the equals sign,
\* the decision has exactly the labels and the values of the pairs, in order.
C13_ExactPairExtraction ==
  \A p \in ExtractParts :
    (pc # "ready" /\ user_message = p[1] \o p[2] \o p[3] \o p[4].text) =>
      /\ Accepted
      /\ chart_data[1].x_labels = Some(PairLabels(p[4].n))
      /\ chart_data[1].y_values = Some(PairValues(p[4].n))


(***************************************************************************)
(* The session store (services/persistence.py).  The variable sessions is  *)
(* the content of the session file: _load_sessions parses it and           *)
(* _save_sessions writes the whole mapping back, so a method that runs     *)
(* without interruption is a function from the file and the clock to the   *)
(* file.  A session that is no key of the file is None.  Timestamps are    *)
(* readings of the clock now.                                              *)
(***************************************************************************)
Styles == {"fd", "bnr"}

\* default of the style parameter of create_or_update_session
DefaultStyle == "fd"

SessionData(session_id, style, created_at, last_used, chat_history) ==
  [session_id |-> session_id, style |-> style, created_at |-> created_at,
   last_used |-> last_used, chat_history |-> chat_history]

\* a ChatMessage read back from the file is a mapping with the keys role,
\* content, timestamp, metadata: a conversation turn for the classifier
ChatMessage(role, content, timestamp, metadata) ==
  [is_dict |-> TRUE, role |-> role, content |-> Some(content),
   metadata |-> metadata, timestamp |-> timestamp]

get_session(store, session_id) == store[session_id]

create_or_update_session(store, session_id, style, t) ==
  IF store[session_id] # None
    THEN [store EXCEPT ![session_id] =
            Some([@[1] EXCEPT !.style = style, !.last_used = t])]
    ELSE [store EXCEPT ![session_id] =
            Some(SessionData(session_id, style, t, t, <<>>))]

get_style_preference(store, session_id) ==
  IF get_session(store, session_id) # None
    THEN get_session(store, session_id)[1].style
    ELSE "fd"

set_style_preference(store, session_id, style, t) ==
  create_or_update_session(store, session_id, style, t)

update_last_used(store, session_id, t) ==
  IF store[session_id] # None
    THEN [store EXCEPT ![session_id] = Some([@[1] EXCEPT !.last_used = t])]
    ELSE store

get_chat_history(store, session_id) ==
  IF get_session(store, session_id) # None
    THEN get_session(store, session_id)[1].chat_history
    ELSE <<>>

add_to_chat_history(store, session_id, role, content, metadata, t) ==
  LET ensured == IF store[session_id] = None
                   THEN create_or_update_session(store, session_id, DefaultStyle, t)
                   ELSE store
  IN  [ensured EXCEPT ![session_id] =
         Some([@[1] EXCEPT
                 !.chat_history = Append(@, ChatMessage(role, content, t, metadata)),
                 !.last_used = t])]

\* a variant that writes back the cleared session alone
clear_chat_history_OnlyCleared(store, session_id) ==
  IF store[session_id] # None
    THEN [s \in SessionIds |->
            IF s = session_id
              THEN Some([store[s][1] EXCEPT !.chat_history = <<>>])
              ELSE None]
    ELSE store

clear_chat_history(store, session_id) ==
  IF store[session_id] # None
    THEN [store EXCEPT ![session_id] = Some([@[1] EXCEPT !.chat_history = <<>>])]
    ELSE store

\* get_persistent_color_scheme on the content mem of the memory file
get_persistent_color_scheme(mem) ==
  IF mem.color_scheme \notin {"fd", "bnr"} THEN "fd" ELSE mem.color_scheme

\* set_persistent_color_scheme: the new content of the memory file
set_persistent_color_scheme(color_scheme) == [color_scheme |-> color_scheme]

(***************************************************************************)
(* Specification of the session store: the methods of PersistenceService   *)
(* called one after the other in any order, on any session.  style_set     *)
(* remembers what set_style_preference was last given.                     *)
(***************************************************************************)
MaxTime == 1
MaxTurns == 2

Hello == <<"h", "i">>

Called(op, session_id) == [op |-> op, session_id |-> session_id]

\* datetime.now() moves on between two calls
Tick ==
  /\ now < MaxTime
  /\ now' = now + 1
  /\ UNCHANGED <<sessions, call, style_set, tracked, inflight, applied, memory, awaiting>>
  /\ UNCHANGED <<classifierVars, samplerVars, parserVars>>

\* create_or_update_session(session_id), the style left to its default
CreateOrUpdateSession(session_id) ==
  /\ sessions' = create_or_update_session(sessions, session_id, DefaultStyle, now)
  /\ call' = Called("create_or_update_session", session_id)
  /\ UNCHANGED <<now, style_set, tracked, inflight, applied, memory, awaiting>>
  /\ UNCHANGED <<classifierVars, samplerVars, parserVars>>

SetStylePreference(session_id, style) ==
  /\ sessions' = set_style_preference(sessions, session_id, style, now)
  /\ style_set' = [style_set EXCEPT ![session_id] = style]
  /\ call' = Called("set_style_preference", session_id)
  /\ UNCHANGED <<now, tracked, inflight, applied, memory, awaiting>>
  /\ UNCHANGED <<classifierVars, samplerVars, parserVars>>

UpdateLastUsed(session_id) ==
  /\ sessions' = update_last_used(sessions, session_id, now)
  /\ call' = Called("update_last_used", session_id)
  /\ UNCHANGED <<now, style_set, tracked, inflight, applied, memory, awaiting>>
  /\ UNCHANGED <<classifierVars, samplerVars, parserVars>>

AddToChatHistory(session_id, role) ==
  /\ Len(get_chat_history(sessions, session_id)) < MaxTurns
  /\ sessions' = add_to_chat_history(sessions, session_id, role, Hello, None, now)
  /\ call' = Called("add_to_chat_history", session_id)
  /\ UNCHANGED <<now, style_set, tracked, inflight, applied, memory, awaiting>>
  /\ UNCHANGED <<classifierVars, samplerVars, parserVars>>

ClearChatHistory(session_id) ==
  /\ sessions' = clear_chat_history(sessions, session_id)
  /\ call' = Called("clear_chat_history", session_id)
  /\ UNCHANGED <<now, style_set, tracked, inflight, applied, memory, awaiting>>
  /\ UNCHANGED <<classifierVars, samplerVars, parserVars>>

InitPersistence == ClassifierIdle /\ StoreIdle /\ SamplerIdle /\ ParserIdle

NextPersistence ==
  \/ Tick
  \/ \E s \in SessionIds : CreateOrUpdateSession(s)
  \/ \E s \in SessionIds, style \in Styles : SetStylePreference(s, style)
  \/ \E s \in SessionIds : UpdateLastUsed(s)
  \/ \E s \in SessionIds : AddToChatHistory(s, "user")
  \/ \E s \in SessionIds : ClearChatHistory(s)

SpecPersistence == InitPersistence /\ [][NextPersistence]_vars

(***************************************************************************)
(* Properties of the session store.                                        *)
(***************************************************************************)
Present(session_id) == sessions[session_id] # None

\* C16 (session isolation): a step that clears the history of session A
\* leaves every other session B that was present still present, with the
\* same style, the same created_at and the same chat history.
C16_SessionIsolation ==
  [][\A a \in SessionIds : \A b \in SessionIds \ {a} :
       (call' = Called("clear_chat_history", a) /\ Present(b)) =>
         /\ sessions'[b] # None
         /\ sessions'[b][1].style = sessions[b][1].style
         /\ sessions'[b][1].created_at = sessions[b][1].created_at
         /\ sessions'[b][1].chat_history = sessions[b][1].chat_history]_vars

\* the history of s1 was just cleared while s2 holds messages and the bnr style
C16_Witness ==
  /\ call = Called("clear_chat_history", "s1")
  /\ Present("s1") /\ get_chat_history(sessions, "s1") = <<>>
  /\ sessions["s1"][1].last_used > sessions["s1"][1].created_at
  /\ Present("s2") /\ Len(get_chat_history(sessions, "s2")) = MaxTurns
  /\ get_style_preference(sessions, "s2") = "bnr"

\* C20 (style preference persistence): whatever calls were made,
\* get_style_preference(s) is the style of the most recent
\* set_style_preference(s, .), and "fd" if there was none.
C20_StylePersistence ==
  \A s \in SessionIds :
    get_style_preference(sessions, s) =
      (IF style_set[s] = "None" THEN "fd" ELSE style_set[s])


(***************************************************************************)
(* The routes (api/routes/chat.py, upload.py, preferences.py).  The        *)
(* handlers are coroutines on one event loop and every call they make to   *)
(* the store is synchronous; without an API key analyze_chart_request      *)
(* returns the decision of the rule-based engine without suspending, so a  *)
(* handler runs from its first store call to its response as one step.     *)
(* The decision of the engine holds floats, so the float coercion of       *)
(* chat.py lines 65-75 succeeds.  render_ok tells whether                  *)
(* chart_generator.generate_both_formats returns or raises.  No property   *)
(* of the routes reads a timestamp: the clock stands still here.           *)
(***************************************************************************)
MaxRequests == 2

\* the messages of the chat requests
ChatMessages ==
  { \* data without a color
  <<"a","=","1",","," ","b","=","2">>,
    \* data with the bnr color
  <<"B","N","R"," ","a","=","1",","," ","b","=","2">>,
    \* a style change that refers to the chart made before
  <<"C","h","a","n","g","e"," ","i","t"," ","t","o"," ","B","N","R"," ","c",
    "o","l","o","r","s">>,
    \* no chart request
  <<"t","e","l","l"," ","a"," ","j","o","k","e">> }

\* analyze_chart_request(message, history) with settings.OPENAI_API_KEY unset
analyze_chart_request(message, history) == analyze(message, history).chart_data[1]

\* a response of a route: its HTTP status, whether it carries a chart_url,
\* its color_scheme field, the style given to generate_both_formats ("None"
\* when no chart was rendered) and the color_scheme of the decision ("None"
\* when there is no valid decision)
Response(op, session_id, status, charted, color_scheme, style, requested) ==
  [op |-> op, session_id |-> session_id, status |-> status, charted |-> charted,
   color_scheme |-> color_scheme, style |-> style, requested |-> requested]

Requests == Len(tracked["s1"]) + Len(tracked["s2"])

Track(session_id, op, status) ==
  tracked' = [tracked EXCEPT ![session_id] = Append(@, [op |-> op, status |-> status])]

\* lines 111-122 of chat.py: the metadata of a chart message
ChartMetadata(x_labels, y_values) == Some(Metadata(ChartKeys, Some(x_labels), y_values))

\* chat.py lines 55-61: the chart type after the normalisation
NormalisedType(decision, x_labels, y_values) ==
  IF x_labels # <<>> /\ y_values # <<>> /\ decision.chart_type = "None"
    THEN (IF Len(x_labels) >= ManyLabels THEN "line" ELSE "bar")
    ELSE decision.chart_type

OrEmpty(opt) == IF IsNone(opt) THEN <<>> ELSE opt[1]

\* chat.py lines 77-160, from the decision to the response; store is the
\* file after the user message was added, style the preference read before
ChatRespond(session_id, store, style, decision, x_labels, y_values, chart_type, render_ok) ==
  IF ~decision.is_valid
    THEN /\ sessions' = add_to_chat_history(store, session_id, "assistant",
                          IF decision.reason = "None" THEN REASON_REFUSE ELSE decision.reason,
                          None, now)
         /\ call' = Response("chat", session_id, 200, FALSE, "None", "None", "None")
    ELSE IF chart_type # "None" /\ x_labels # <<>> /\ y_values # <<>>
      THEN IF render_ok
        THEN /\ sessions' = add_to_chat_history(store, session_id, "assistant",
                              "I've created a chart for you!",
                              ChartMetadata(x_labels, Some(y_values)), now)
             /\ call' = Response("chat", session_id, 200, TRUE, "None", style,
                                 decision.color_scheme)
        ELSE /\ sessions' = add_to_chat_history(store, session_id, "assistant",
                              "I understood your request, but encountered an error generating the chart",
                              None, now)
             /\ call' = Response("chat", session_id, 200, FALSE, "None", style,
                                 decision.color_scheme)
      ELSE /\ sessions' = add_to_chat_history(store, session_id, "assistant",
                            "I understood you want a chart, but I need more information about the data.",
                            None, now)
           /\ call' = Response("chat", session_id, 200, FALSE, "None", "None",
                               decision.color_scheme)

\* chat.py lines 43-61: the decision and its normalisation
ChatDecide(session_id, store, style, decision, render_ok) ==
  ChatRespond(session_id, store, style, decision, OrEmpty(decision.x_labels),
              OrEmpty(decision.y_values),
              NormalisedType(decision, OrEmpty(decision.x_labels),
                             OrEmpty(decision.y_values)),
              render_ok)

\* chat.py lines 27-40, with touched the file after update_last_used
ChatStart(session_id, message, touched, render_ok) ==
  ChatDecide(session_id,
             add_to_chat_history(touched, session_id, "user", message, None, now),
             get_style_preference(touched, session_id),
             analyze_chart_request(message, get_chat_history(touched, session_id)),
             render_ok)

\* the handler of POST /api/chat, run without suspension
chat(session_id, message, render_ok) ==
  /\ ChatStart(session_id, message, update_last_used(sessions, session_id, now), render_ok)
  /\ Track(session_id, "chat", 200)
  /\ UNCHANGED <<now, style_set, inflight, applied, memory, awaiting>>
  /\ UNCHANGED <<classifierVars, samplerVars, parserVars>>

\* POST /api/chat
Chat(session_id, message, render_ok) ==
  /\ Requests < MaxRequests
  /\ chat(session_id, message, render_ok)

\* DELETE /api/chat/{session_id}
DeleteChat(session_id) ==
  /\ Requests < MaxRequests
  /\ sessions' = clear_chat_history(sessions, session_id)
  /\ call' = Response("delete", session_id, 200, FALSE, "None", "None", "None")
  /\ Track(session_id, "delete", 200)
  /\ UNCHANGED <<now, style_set, inflight, applied, memory, awaiting>>
  /\ UNCHANGED <<classifierVars, samplerVars, parserVars>>

\* POST /api/preferences/{session_id}
SetPreferences(session_id, style) ==
  /\ sessions' = set_style_preference(sessions, session_id, style, now)
  /\ style_set' = [style_set EXCEPT ![session_id] = style]
  /\ call' = Response("preferences", session_id, 200, FALSE, "None", "None", "None")
  /\ UNCHANGED <<now, tracked, inflight, applied, memory, awaiting>>
  /\ UNCHANGED <<classifierVars, samplerVars, parserVars>>

(***************************************************************************)
(* The upload route.  A file is given by what the route finds in it:       *)
(*   bad_type     the name does not end in .xlsx or .xls         (400)     *)
(*   too_large    more than MAX_FILE_SIZE bytes                  (413)     *)
(*   unparseable  pandas cannot read it: parse_excel reports no success    *)
(*   numeric      two columns, the second numeric: auto-detection works    *)
(*   text_values  two columns, the second holds the texts 10 and 20        *)
(*   text_words   two columns, the second holds words                      *)
(*   text_bnr     as text_values, with the label bnr in the first row      *)
(* For the last two auto_detect_chart_data returns None and the engine     *)
(* reads the text that _dataframe_to_text makes of the sheet.              *)
(***************************************************************************)
FileKinds ==
  {"bad_type", "too_large", "unparseable", "numeric", "text_values", "text_words", "text_bnr"}

UploadedFileMessage ==
  <<"U","p","l","o","a","d","e","d"," ","E","x","c","e","l"," ","f","i","l",
    "e",":"," ","d","a","t","a",".","x","l","s","x">>

\* upload.py line 63
UploadMetadata == Some(Metadata({"type", "filename", "file_size"}, None, None))

\* upload.py line 142 with the text of a sheet label/value with the rows
\* (a, "10") and (b, "20")
TextValuesMessage ==
  <<"C","r","e","a","t","e"," ","a"," ","c","h","a","r","t"," ","f","r","o",
    "m"," ","t","h","i","s"," ","E","x","c","e","l"," ","d","a","t","a",":",
    "\n","E","x","c","e","l"," ","f","i","l","e"," ","c","o","n","t","a",
    "i","n","s"," ","2"," ","r","o","w","s"," ","a","n","d"," ","2"," ","c",
    "o","l","u","m","n","s",".","\n","C","o","l","u","m","n","s",":"," ",
    "l","a","b","e","l",","," ","v","a","l","u","e","\n","\n","D","a","t",
    "a",":","\n","a"," ","="," ","1","0","\n","b"," ","="," ","2","0">>

\* the same with the rows (a, "low") and (b, "high")
TextWordsMessage ==
  <<"C","r","e","a","t","e"," ","a"," ","c","h","a","r","t"," ","f","r","o",
    "m"," ","t","h","i","s"," ","E","x","c","e","l"," ","d","a","t","a",":",
    "\n","E","x","c","e","l"," ","f","i","l","e"," ","c","o","n","t","a",
    "i","n","s"," ","2"," ","r","o","w","s"," ","a","n","d"," ","2"," ","c",
    "o","l","u","m","n","s",".","\n","C","o","l","u","m","n","s",":"," ",
    "l","a","b","e","l",","," ","v","a","l","u","e","\n","\n","D","a","t",
    "a",":","\n","a"," ","="," ","l","o","w","\n","b"," ","="," ","h","i",
    "g","h">>

\* the same with the rows (bnr, "10") and (b, "20")
TextBnrMessage ==
  <<"C","r","e","a","t","e"," ","a"," ","c","h","a","r","t"," ","f","r","o",
    "m"," ","t","h","i","s"," ","E","x","c","e","l"," ","d","a","t","a",":",
    "\n","E","x","c","e","l"," ","f","i","l","e"," ","c","o","n","t","a",
    "i","n","s"," ","2"," ","r","o","w","s"," ","a","n","d"," ","2"," ","c",
    "o","l","u","m","n","s",".","\n","C","o","l","u","m","n","s",":"," ",
    "l","a","b","e","l",","," ","v","a","l","u","e","\n","\n","D","a","t",
    "a",":","\n","b","n","r"," ","="," ","1","0","\n","b"," ","="," ","2",
    "0">>

\* upload.py lines 121-127 and 184-190: the metadata of a chart message
UploadChartMetadata(x_labels, y_values) ==
  Some(Metadata({"chart_id", "chart_type", "x_labels", "y_values", "source"},
                Some(x_labels), y_values))

\* lines 96-135: auto-detection gave the rows (a, 10) and (b, 20); an
\* exception of the renderer leaves the route as status 500 (lines 217-219)
UploadAuto(session_id, store, style, render_ok) ==
  /\ IF render_ok
       THEN /\ sessions' = add_to_chat_history(store, session_id, "assistant",
                             "I've created a chart from your Excel file!",
                             UploadChartMetadata(<< <<"a">>, <<"b">> >>, Some(<<100, 200>>)), now)
            /\ call' = Response("upload", session_id, 200, TRUE, style, style, "None")
            /\ Track(session_id, "upload", 200)
       ELSE /\ sessions' = store
            /\ call' = Response("upload", session_id, 500, FALSE, "None", style, "None")
            /\ Track(session_id, "upload", 500)
  /\ UNCHANGED memory

\* lines 145-207: the engine read the text of the sheet; a decision with a
\* color_scheme is written to the memory file before the chart is rendered
UploadInterpret(session_id, store, decision, style, render_ok) ==
  IF /\ decision.is_valid
     /\ decision.chart_type # "None"
     /\ OrEmpty(decision.x_labels) # <<>>
     /\ OrEmpty(decision.y_values) # <<>>
    THEN IF render_ok
      THEN /\ sessions' = add_to_chat_history(store, session_id, "assistant",
                            "I've created a chart from your Excel file!",
                            UploadChartMetadata(decision.x_labels[1], decision.y_values), now)
           /\ call' = Response("upload", session_id, 200, TRUE, style, style,
                               decision.color_scheme)
           /\ Track(session_id, "upload", 200)
           /\ memory' = IF decision.color_scheme # "None"
                           THEN set_persistent_color_scheme(decision.color_scheme)
                           ELSE memory
      ELSE /\ sessions' = store
           /\ call' = Response("upload", session_id, 500, FALSE, "None", style,
                               decision.color_scheme)
           /\ Track(session_id, "upload", 500)
           /\ memory' = IF decision.color_scheme # "None"
                           THEN set_persistent_color_scheme(decision.color_scheme)
                           ELSE memory
    ELSE /\ sessions' = add_to_chat_history(store, session_id, "assistant",
                          "I couldn't automatically determine how to chart this data.",
                          None, now)
         /\ call' = Response("upload", session_id, 200, FALSE, "None", "None", "None")
         /\ Track(session_id, "upload", 200)
         /\ UNCHANGED memory

\* a or b or c or "fd" of upload.py lines 101 and 151-157: the first value
\* that is truthy, None and the empty string being falsy
FirstTruthy(values) ==
  LET truthy == { i \in 1..Len(values) : values[i] \notin {"None", ""} }
  IN  IF truthy = {} THEN "fd"
      ELSE values[CHOOSE i \in truthy : \A j \in truthy : i <= j]

\* lines 139-157
UploadAgent(session_id, store, decision, render_ok) ==
  UploadInterpret(session_id, store, decision,
                  FirstTruthy(<<decision.color_scheme,
                                get_style_preference(store, session_id),
                                get_persistent_color_scheme(memory)>>),
                  render_ok)

\* lines 66-207, with store the file after lines 56-64
UploadParsed(session_id, kind, store, render_ok) ==
  CASE kind = "unparseable" ->
         /\ sessions' = store
         /\ call' = Response("upload", session_id, 200, FALSE, "None", "None", "None")
         /\ Track(session_id, "upload", 200)
         /\ UNCHANGED memory
    [] kind = "numeric" ->
         UploadAuto(session_id, store,
                    FirstTruthy(<<get_style_preference(store, session_id),
                                  get_persistent_color_scheme(memory)>>),
                    render_ok)
    [] kind = "text_values" ->
         UploadAgent(session_id, store,
                     analyze_chart_request(TextValuesMessage, get_chat_history(store, session_id)),
                     render_ok)
    [] kind = "text_words" ->
         UploadAgent(session_id, store,
                     analyze_chart_request(TextWordsMessage, get_chat_history(store, session_id)),
                     render_ok)
    [] kind = "text_bnr" ->
         UploadAgent(session_id, store,
                     analyze_chart_request(TextBnrMessage, get_chat_history(store, session_id)),
                     render_ok)

\* POST /api/upload
Upload(session_id, kind, render_ok) ==
  /\ Requests < MaxRequests
  /\ IF kind \in {"bad_type", "too_large"}
       THEN /\ call' = Response("upload", session_id,
                                IF kind = "bad_type" THEN 400 ELSE 413,
                                FALSE, "None", "None", "None")
            /\ Track(session_id, "upload", IF kind = "bad_type" THEN 400 ELSE 413)
            /\ UNCHANGED <<sessions, memory>>
       ELSE UploadParsed(session_id, kind,
                         add_to_chat_history(update_last_used(sessions, session_id, now),
                                             session_id, "user", UploadedFileMessage,
                                             UploadMetadata, now),
                         render_ok)
  /\ UNCHANGED <<now, style_set, inflight, applied, awaiting>>
  /\ UNCHANGED <<classifierVars, samplerVars, parserVars>>

InitRoutes == ClassifierIdle /\ StoreIdle /\ SamplerIdle /\ ParserIdle

NextRoutes ==
  \/ \E s \in SessionIds, m \in ChatMessages, ok \in BOOLEAN : Chat(s, m, ok)
  \/ \E s \in SessionIds, k \in FileKinds, ok \in BOOLEAN : Upload(s, k, ok)
  \/ \E s \in SessionIds : DeleteChat(s)
  \/ \E s \in SessionIds, style \in Styles : SetPreferences(s, style)

SpecRoutes == InitRoutes /\ [][NextRoutes]_vars

(***************************************************************************)
(* Properties of the routes.                                               *)
(***************************************************************************)
\* every request made on the session was a chat or an upload that got a
\* normal response
OnlyNormalInteractions(s) ==
  \A i \in 1..Len(tracked[s]) :
    tracked[s][i].op \in {"chat", "upload"} /\ tracked[s][i].status = 200

\* C14 (interaction tracking): after k chat requests and uploads that all
\* completed with a normal response on a fresh session, the history holds
\* 2k messages, a user message followed by an assistant message k times.
C14_InteractionTracking ==
  \A s \in SessionIds :
    OnlyNormalInteractions(s) =>
      /\ Len(get_chat_history(sessions, s)) = 2 * Len(tracked[s])
      /\ \A i \in 1..Len(get_chat_history(sessions, s)) :
           get_chat_history(sessions, s)[i].role =
             (IF i % 2 = 1 THEN "user" ELSE "assistant")

\* C15 (new conversation deletes the session): after DELETE
\* /api/chat/{session_id} completed, the session id is no key of the store.
C15_DeleteRemovesSession ==
  call.op = "delete" => sessions[call.session_id] = None

\* C17 (requested color scheme reaches the chat response): a chat request
\* whose decision is valid with color_scheme bnr renders with the bnr
\* palette and answers with color_scheme bnr.
C17_RequestedColorInResponse ==
  (call.op = "chat" /\ call.requested = "bnr" /\ call.charted) =>
    /\ call.style = "bnr"
    /\ call.color_scheme = "bnr"


(***************************************************************************)
(* ChartGenerator._smart_sample_labels (services/chart_generator.py).      *)
(* Python indexes from 0: the index i of the code is position i + 1 of a   *)
(* sequence here, and indices holds the 0-based indices.  max_points is a  *)
(* positive count (15 by default, 30 at both call sites), n // max_points  *)
(* the floor division of two non-negative integers.                        *)
(***************************************************************************)
MaxN == 12
MaxCap == 5

Max(a, b) == IF a >= b THEN a ELSE b

\* lines 48-51: the loop that adds current, current + step, ... below n - 1
RECURSIVE Intermediate(_, _, _)
Intermediate(current, step, n) ==
  IF current < n - 1
    THEN <<current>> \o Intermediate(current + step, step, n)
    ELSE <<>>

\* lines 53-55
WithLast(indices, n) ==
  IF indices[Len(indices)] # n - 1 THEN Append(indices, n - 1) ELSE indices

\* lines 57-61
Sampled(x_labels, y_values, indices) ==
  [sampled_labels |-> [k \in 1..Len(indices) |-> x_labels[indices[k] + 1]],
   sampled_values |-> [k \in 1..Len(indices) |-> y_values[indices[k] + 1]],
   indices |-> indices]

\* a variant without lines 53-55
_smart_sample_labels_NoLast(x_labels, y_values, max_points) ==
  IF Len(x_labels) <= max_points
    THEN [sampled_labels |-> x_labels, sampled_values |-> y_values,
          indices |-> [k \in 1..Len(x_labels) |-> k - 1]]
    ELSE Sampled(x_labels, y_values,
                 <<0>> \o Intermediate(Max(1, Len(x_labels) \div max_points),
                                       Max(1, Len(x_labels) \div max_points),
                                       Len(x_labels)))

_smart_sample_labels(x_labels, y_values, max_points) ==
  IF Len(x_labels) <= max_points
    THEN [sampled_labels |-> x_labels, sampled_values |-> y_values,
          indices |-> [k \in 1..Len(x_labels) |-> k - 1]]
    ELSE Sampled(x_labels, y_values,
                 WithLast(<<0>> \o Intermediate(Max(1, Len(x_labels) \div max_points),
                                                Max(1, Len(x_labels) \div max_points),
                                                Len(x_labels)),
                          Len(x_labels)))

\* n labels that differ from one another, and their values (in tenths)
Labels(n) == [i \in 1..n |-> 1000 + i]
Values(n, first) == [i \in 1..n |-> 10 * (first + i)]

SampleCall(n, first, max_points) ==
  [pc |-> "ready", x_labels |-> Labels(n), y_values |-> Values(n, first),
   max_points |-> max_points, result |-> None]

InitSample ==
  /\ ClassifierIdle
  /\ StoreIdle
  /\ ParserIdle
  /\ sampler \in {SampleCall(n, first, c) : n \in 0..MaxN, first \in 0..1, c \in 1..MaxCap}

Sample ==
  /\ sampler.pc = "ready"
  /\ sampler' = [sampler EXCEPT
                   !.pc = "done",
                   !.result = Some(_smart_sample_labels(sampler.x_labels, sampler.y_values,
                                                        sampler.max_points))]
  /\ UNCHANGED <<classifierVars, storeVars, parserVars>>

NextSample == Sample

SpecSample == InitSample /\ [][NextSample]_vars

(***************************************************************************)
(* Properties of the sampling.                                             *)
(***************************************************************************)
SampleStep == Max(1, Len(sampler.x_labels) \div sampler.max_points)

\* C19 (smart sampling): with n labels and the cap max_points, n <= max_points
\* returns the labels and values unchanged with the indices 0..n-1;
\* n > max_points returns strictly increasing indices that start with 0 and
\* end with n-1, all but the last multiples of step = max(1, n // max_points),
\* and the labels and values at exactly those indices.
C19_SmartSampling ==
  sampler.pc = "done" =>
    LET n       == Len(sampler.x_labels)
        res     == sampler.result[1]
        indices == res.indices
    IN  IF n <= sampler.max_points
          THEN /\ indices = [k \in 1..n |-> k - 1]
               /\ res.sampled_labels = sampler.x_labels
               /\ res.sampled_values = sampler.y_values
          ELSE /\ \A k \in 1..(Len(indices) - 1) : indices[k] < indices[k + 1]
               /\ indices[1] = 0
               /\ indices[Len(indices)] = n - 1
               /\ \A k \in 1..(Len(indices) - 1) : indices[k] % SampleStep = 0
               /\ Len(res.sampled_labels) = Len(indices)
               /\ Len(res.sampled_values) = Len(indices)
               /\ \A k \in 1..Len(indices) :
                    /\ res.sampled_labels[k] = sampler.x_labels[indices[k] + 1]
                    /\ res.sampled_values[k] = sampler.y_values[indices[k] + 1]

\* a sampled call whose last index is no multiple of the step
C19_Witness ==
  /\ sampler.pc = "done"
  /\ Len(sampler.x_labels) > sampler.max_points
  /\ SampleStep > 1
  /\ (Len(sampler.x_labels) - 1) % SampleStep # 0
  /\ Len(sampler.result[1].indices) > 2
  /\ Len(sampler.result[1].indices) < Len(sampler.x_labels)


(***************************************************************************)
(* Mutations of the store by callers that run side by side (several        *)
(* server processes on the same session file).  A mutation is no single    *)
(* step then: _load_sessions reads the whole file into a local mapping,    *)
(* the method changes the entry of its session in that mapping, and        *)
(* _save_sessions writes the whole mapping back.  The callers keep one     *)
(* mutation in flight per session id: inflight[s] is None, or the          *)
(* mutation of s with the mapping it loaded and the step it is at.         *)
(* applied[s] lists the mutations of s that returned.  The clock stands    *)
(* still.                                                                  *)
(***************************************************************************)
Mutations ==
  { [op |-> "add_to_chat_history", style |-> "None"],
    [op |-> "set_style_preference", style |-> "fd"],
    [op |-> "set_style_preference", style |-> "bnr"],
    [op |-> "clear_chat_history", style |-> "None"] }

InFlight(mutation, loaded, step) == [mutation |-> mutation, loaded |-> loaded, step |-> step]

\* what the method makes of the mapping it loaded, right before the save
Mutate(mutation, loaded, session_id) ==
  CASE mutation.op = "add_to_chat_history" ->
         add_to_chat_history(loaded, session_id, "user", Hello, None, now)
    [] mutation.op = "set_style_preference" ->
         set_style_preference(loaded, session_id, mutation.style, now)
    [] mutation.op = "clear_chat_history" ->
         clear_chat_history(loaded, session_id)

\* the first _load_sessions of a method; add_to_chat_history goes on with
\* create_or_update_session(session_id) when the session is no key
Begin(session_id, mutation) ==
  /\ inflight[session_id] = None
  /\ Len(applied[session_id]) < MaxRequests
  /\ inflight' = [inflight EXCEPT ![session_id] =
                    Some(InFlight(mutation, sessions,
                                  IF mutation.op = "add_to_chat_history"
                                     /\ sessions[session_id] = None
                                    THEN "ensure" ELSE "save"))]
  /\ UNCHANGED <<sessions, now, call, style_set, tracked, applied, memory, awaiting>>
  /\ UNCHANGED <<classifierVars, samplerVars, parserVars>>

\* persistence.py line 82 in the call of line 147
EnsureLoad(session_id) ==
  /\ inflight[session_id] # None
  /\ inflight[session_id][1].step = "ensure"
  /\ inflight' = [inflight EXCEPT ![session_id] =
                    Some(InFlight(@[1].mutation, sessions, "ensure_save"))]
  /\ UNCHANGED <<sessions, now, call, style_set, tracked, applied, memory, awaiting>>
  /\ UNCHANGED <<classifierVars, samplerVars, parserVars>>

\* persistence.py lines 86-102 in the call of line 147
EnsureSave(session_id) ==
  /\ inflight[session_id] # None
  /\ inflight[session_id][1].step = "ensure_save"
  /\ sessions' = create_or_update_session(inflight[session_id][1].loaded, session_id,
                                          DefaultStyle, now)
  /\ inflight' = [inflight EXCEPT ![session_id] =
                    Some(InFlight(@[1].mutation, @[1].loaded, "reload"))]
  /\ UNCHANGED <<now, call, style_set, tracked, applied, memory, awaiting>>
  /\ UNCHANGED <<classifierVars, samplerVars, parserVars>>

\* persistence.py line 148.  When another caller has dropped the session
\* again, sessions[session_id] of line 151 raises KeyError: the method ends
\* without a save and does not return.
Reload(session_id) ==
  /\ inflight[session_id] # None
  /\ inflight[session_id][1].step = "reload"
  /\ inflight' = [inflight EXCEPT ![session_id] =
                    IF sessions[session_id] = None THEN None
                    ELSE Some(InFlight(@[1].mutation, sessions, "save"))]
  /\ UNCHANGED <<sessions, now, call, style_set, tracked, applied, memory, awaiting>>
  /\ UNCHANGED <<classifierVars, samplerVars, parserVars>>

\* the _save_sessions that ends the method
Save(session_id) ==
  /\ inflight[session_id] # None
  /\ inflight[session_id][1].step = "save"
  /\ sessions' = Mutate(inflight[session_id][1].mutation, inflight[session_id][1].loaded,
                        session_id)
  /\ inflight' = [inflight EXCEPT ![session_id] = None]
  /\ applied' = [applied EXCEPT ![session_id] = Append(@, inflight[session_id][1].mutation)]
  /\ UNCHANGED <<now, call, style_set, tracked, memory, awaiting>>
  /\ UNCHANGED <<classifierVars, samplerVars, parserVars>>

InitConcurrent == ClassifierIdle /\ StoreIdle /\ SamplerIdle /\ ParserIdle

NextConcurrent ==
  \/ \E s \in SessionIds, mutation \in Mutations : Begin(s, mutation)
  \/ \E s \in SessionIds : EnsureLoad(s)
  \/ \E s \in SessionIds : EnsureSave(s)
  \/ \E s \in SessionIds : Reload(s)
  \/ \E s \in SessionIds : Save(s)

SpecConcurrent == InitConcurrent /\ [][NextConcurrent]_vars

(***************************************************************************)
(* Properties of the concurrent mutations.                                 *)
(***************************************************************************)
\* the store after the given mutations of one session ran one after the
\* other on a new file
RECURSIVE Replay(_, _)
Replay(mutations, session_id) ==
  IF mutations = <<>> THEN EmptyStore
  ELSE Mutate(mutations[Len(mutations)],
              Replay(SubSeq(mutations, 1, Len(mutations) - 1), session_id), session_id)

Quiescent == \A s \in SessionIds : inflight[s] = None

\* C18 (per-session write serialization is sufficient): with at most one
\* mutation in flight per session id and the mutations of different sessions
\* interleaved, once all of them returned every session holds what its own
\* mutations, run in their order, make of it: no message, style change or
\* clear is lost.
C18_NoLostUpdate ==
  Quiescent => \A s \in SessionIds : sessions[s] = Replay(applied[s], s)[s]


(***************************************************************************)
(* Messages whose labels are 4-digit years, 19xx as well as 20xx.          *)
(***************************************************************************)
YearLabels ==
  { <<"1","9","0","0">>, <<"1","9","8","5">>, <<"1","9","9","9">>,
    <<"2","0","0","0">>, <<"2","0","2","4">>, <<"2","0","9","9">> }

YearPrefixes == { <<>>, <<"c","h","a","r","t",";"," ">> }

YearMessages ==
  { p \o y1 \o <<"=","1",","," ">> \o y2 \o <<"=","2">> :
      p \in YearPrefixes, y1 \in YearLabels, y2 \in YearLabels }

InitYears ==
  /\ user_message \in YearMessages
  /\ conversation_history = <<>>
  /\ HAS_OPENAI_KEY = FALSE
  /\ pc = "ready"
  /\ llm = "not_called"
  /\ chart_data = None
  /\ caught = "None"
  /\ raised = FALSE
  /\ StoreIdle
  /\ SamplerIdle /\ ParserIdle

NextYears == Analyze

SpecYears == InitYears /\ [][NextYears]_vars

(***************************************************************************)
(* Properties of the time-series test.                                     *)
(***************************************************************************)
\* ^(20|19)\d{2}$
IsYear19or20(tok) ==
  /\ Len(tok) = 4
  /\ <<tok[1], tok[2]>> \in { <<"1","9">>, <<"2","0">> }
  /\ tok[3] \in Digits /\ tok[4] \in Digits

\* C21 (year labels are time series): when every label of an accepted
\* decision is a 4-digit year in 1900..2099, the labels are a time series,
\* and without an explicit chart-type keyword the chart is a line chart.
C21_YearLabelsAreTimeSeries ==
  (Accepted /\ \A k \in 1..Len(chart_data[1].x_labels[1]) :
                 IsYear19or20(chart_data[1].x_labels[1][k])) =>
    /\ _is_time_series(chart_data[1].x_labels[1])
    /\ (~HasAny(bar_keywords) /\ ~HasAny(line_keywords)) =>
         chart_data[1].chart_type = "line"


(***************************************************************************)
(* Histories as the store hands them to the engine (every turn a mapping   *)
(* with content), under a style-change request and under a back-reference. *)
(***************************************************************************)
ResolverTurns ==
  { \* user turns with two pairs
    Turn("user", Some(<<"A","=","1",","," ","B","=","2">>), None),
    Turn("user", Some(<<"C","=","3",","," ","D","=","4">>), None),
    \* user turns with one pair and with none
    Turn("user", Some(<<"E","=","5">>), None),
    Turn("user", Some(<<"h","e","l","l","o">>), None),
    \* assistant turns that mirror a chart
    Turn("assistant", Some(<<"o","k">>),
         Some(Metadata(ChartKeys, Some(<< <<"Q","1">>, <<"Q","2">> >>), Some(<<100, 150>>)))),
    Turn("assistant", Some(<<"o","k">>),
         Some(Metadata(ChartKeys, Some(<< <<"N">>, <<"S">>, <<"E">> >>), Some(<<30, 45, 50>>)))),
    \* an assistant refusal, and an assistant turn whose metadata has no y_values
    Turn("assistant", Some(<<"n","o">>), None),
    Turn("assistant", Some(<<"o","k">>),
         Some(Metadata({"chart_id", "x_labels"}, Some(<< <<"X">>, <<"Y">> >>), None))) }

ResolverHistories == UNION { [1..n -> ResolverTurns] : n \in 0..MaxHist }

ResolverMessages == { <<"u","s","e"," ","B","N","R">>, <<"s","a","m","e">> }

InitResolver ==
  /\ user_message \in ResolverMessages
  /\ conversation_history \in ResolverHistories
  /\ HAS_OPENAI_KEY = FALSE
  /\ pc = "ready"
  /\ llm = "not_called"
  /\ chart_data = None
  /\ caught = "None"
  /\ raised = FALSE
  /\ StoreIdle
  /\ SamplerIdle /\ ParserIdle

NextResolver == Analyze

SpecResolver == InitResolver /\ [][NextResolver]_vars

(***************************************************************************)
(* Properties of the Conversation Resolver.                                *)
(***************************************************************************)
\* a user turn whose content yields at least two pairs
DataTurn(msg) ==
  /\ msg.is_dict
  /\ msg.role = "user"
  /\ ~IsNone(msg.content)
  /\ ~IsNone(_extract_data_pairs(msg.content[1]))

HasDataTurn == \E i \in 1..Len(conversation_history) : DataTurn(conversation_history[i])

LatestDataTurn ==
  conversation_history[
    CHOOSE i \in 1..Len(conversation_history) :
      /\ DataTurn(conversation_history[i])
      /\ \A j \in (i + 1)..Len(conversation_history) : ~DataTurn(conversation_history[j])]

\* what the claim says the resolver returns for the history of the state
ResolverExpected ==
  IF HasChartTurn
    THEN Some([x_labels |-> LatestChartTurn.metadata[1].x_labels,
               y_values |-> LatestChartTurn.metadata[1].y_values])
  ELSE IF HasDataTurn
    THEN Some([x_labels |-> Some(_extract_data_pairs(LatestDataTurn.content[1])[1].x_labels),
               y_values |-> Some(_extract_data_pairs(LatestDataTurn.content[1])[1].y_values)])
  ELSE None

\* C22 (Conversation Resolver order): on a history of well-formed turns
\* _get_previous_chart_data returns the data of the latest assistant turn
\* whose metadata has x_labels and y_values, also when a later user turn
\* carries data; without such a turn the extraction from the latest user
\* turn that yields two pairs or more; and nothing only when both are
\* missing.  The decision on a style change or a back-reference carries
\* exactly that data.
C22_ResolverOrder ==
  pc # "ready" =>
    /\ _get_previous_chart_data(conversation_history) = Returned(ResolverExpected)
    /\ IF ResolverExpected = None
         THEN ~Accepted
         ELSE /\ Accepted
              /\ chart_data[1].x_labels = ResolverExpected[1].x_labels
              /\ chart_data[1].y_values = ResolverExpected[1].y_values

\* a chart turn followed by a user turn with data: the chart turn wins
C22_Witness ==
  /\ Accepted
  /\ Len(conversation_history) = 2
  /\ ChartTurn(conversation_history[1])
  /\ DataTurn(conversation_history[2])
  /\ chart_data[1].x_labels = conversation_history[1].metadata[1].x_labels


(***************************************************************************)
(* Properties of the axis labels.                                          *)
(***************************************************************************)
\* C23 (axis labels follow the chart type): in every accepted decision,
\* with the data from the message or from the history, x_label is "Time"
\* exactly when the chart is a line chart and "Category" exactly when it is
\* a bar chart, and y_label is "Value".
C23_AxisLabelsFollowType ==
  Accepted =>
    /\ chart_data[1].chart_type \in {"bar", "line"}
    /\ chart_data[1].x_label = (IF chart_data[1].chart_type = "line" THEN "Time" ELSE "Category")
    /\ chart_data[1].y_label = "Value"


\* C25 (sampling bound): for every n and every max_points >= 2 the sampled
\* call returns at most max_points points.
C25_AtMostMaxPoints ==
  (sampler.pc = "done" /\ sampler.max_points >= 2) =>
    /\ Len(sampler.result[1].indices) <= sampler.max_points
    /\ Len(sampler.result[1].sampled_labels) <= sampler.max_points
    /\ Len(sampler.result[1].sampled_values) <= sampler.max_points


(***************************************************************************)
(* Properties of the color of an uploaded spreadsheet.                     *)
(***************************************************************************)
\* C26 (upload color precedence): the style an uploaded spreadsheet is
\* rendered with is the first available of the color_scheme of the decision,
\* the style preference set for the session, the persistent color scheme of
\* the memory file and "fd"; with no style ever set for the session and a
\* decision without color_scheme it is the persistent color scheme.
C26_UploadColorPrecedence ==
  (call.op = "upload" /\ call.charted) =>
    call.style = (IF call.requested # "None" THEN call.requested
                  ELSE IF style_set[call.session_id] # "None"
                         THEN style_set[call.session_id]
                  ELSE get_persistent_color_scheme(memory))


(***************************************************************************)
(* ExcelParser._determine_chart_type (excel_parser.py).  The patterns that *)
(* stand between two \b consist of word characters, so they match a        *)
(* maximal run of word characters that equals an alternative; the others   *)
(* match anywhere in the text.  `over time' and `by category' match only   *)
(* where the words time and category match on their own.                   *)
(***************************************************************************)
\* the alternatives of the first six time_indicators
time_indicator_words ==
  { <<"y","e","a","r">>, <<"m","o","n","t","h">>,
    <<"q","u","a","r","t","e","r">>, <<"w","e","e","k">>, <<"d","a","y">>,
    <<"d","a","t","e">>, <<"t","i","m","e">>, <<"p","e","r","i","o","d">>,
    <<"h","o","u","r">>, <<"m","i","n","u","t","e">>, <<"j","a","n">>,
    <<"f","e","b">>, <<"m","a","r">>, <<"a","p","r">>, <<"m","a","y">>,
    <<"j","u","n">>, <<"j","u","l">>, <<"a","u","g">>, <<"s","e","p">>,
    <<"o","c","t">>, <<"n","o","v">>, <<"d","e","c">>,
    <<"j","a","n","u","a","r","y">>, <<"f","e","b","r","u","a","r","y">>,
    <<"m","a","r","c","h">>, <<"a","p","r","i","l">>, <<"j","u","n","e">>,
    <<"j","u","l","y">>, <<"a","u","g","u","s","t">>,
    <<"s","e","p","t","e","m","b","e","r">>, <<"o","c","t","o","b","e","r">>,
    <<"n","o","v","e","m","b","e","r">>, <<"d","e","c","e","m","b","e","r">>,
    <<"q","1">>, <<"q","2">>, <<"q","3">>, <<"q","4">>,
    <<"m","o","n","d","a","y">>, <<"t","u","e","s","d","a","y">>,
    <<"w","e","d","n","e","s","d","a","y">>,
    <<"t","h","u","r","s","d","a","y">>, <<"f","r","i","d","a","y">>,
    <<"s","a","t","u","r","d","a","y">>, <<"s","u","n","d","a","y">>,
    <<"t","r","e","n","d">>, <<"t","i","m","e","l","i","n","e">>,
    <<"h","i","s","t","o","r","i","c","a","l">>,
    <<"f","o","r","e","c","a","s","t">>, <<"g","r","o","w","t","h">> }

\* jan|feb|...|dec of the pattern with a number after the month
month_abbreviations ==
  { <<"j","a","n">>, <<"f","e","b">>, <<"m","a","r">>, <<"a","p","r">>,
    <<"m","a","y">>, <<"j","u","n">>, <<"j","u","l">>, <<"a","u","g">>,
    <<"s","e","p">>, <<"o","c","t">>, <<"n","o","v">>, <<"d","e","c">> }

\* the alternatives of category_indicators
category_indicator_words ==
  { <<"p","r","o","d","u","c","t">>, <<"c","a","t","e","g","o","r","y">>,
    <<"r","e","g","i","o","n">>, <<"d","e","p","a","r","t","m","e","n","t">>,
    <<"c","o","u","n","t","r","y">>, <<"c","i","t","y">>,
    <<"t","e","a","m">>, <<"c","o","m","p","a","n","y">>,
    <<"c","o","m","p","a","r">>, <<"v","e","r","s","u","s">>, <<"v","s">>,
    <<"b","r","e","a","k","d","o","w","n">>,
    <<"d","i","s","t","r","i","b","u","t","i","o","n">>, <<"t","o","p">>,
    <<"r","a","n","k">>, <<"b","e","s","t">>, <<"w","o","r","s","t">> }

\* (19|20)\d{2}
IsYear19or20Token(tok) ==
  /\ Len(tok) = 4
  /\ <<tok[1], tok[2]>> \in { <<"1","9">>, <<"2","0">> }
  /\ tok[3] \in Digits /\ tok[4] \in Digits

\* the tokens of text between two \b
Tokens(text) ==
  { SubSeq(text, i, WordRunEnd(text, i) - 1) :
      i \in { j \in 1..Len(text) : IsWord(text[j]) /\ (j = 1 \/ ~IsWord(text[j - 1])) } }

\* \d{k} at position i
DigitsAt(text, i, k) ==
  /\ i >= 1 /\ i + k - 1 <= Len(text)
  /\ \A j \in i..(i + k - 1) : text[j] \in Digits

\* [-\s]?\d{2,4} at position i
NumberAfter(text, i) ==
  \/ DigitsAt(text, i, 2)
  \/ i <= Len(text) /\ (text[i] = "-" \/ IsSpace(text[i])) /\ DigitsAt(text, i + 1, 2)

\* q[1-4] at position i
QuarterAt(text, i) ==
  i + 1 <= Len(text) /\ text[i] = "q" /\ text[i + 1] \in {"1", "2", "3", "4"}

\* re.search of one of the time_indicators in all_text
SearchTimeIndicators(all_text) ==
  \/ \E tok \in Tokens(all_text) : tok \in time_indicator_words \/ IsYear19or20Token(tok)
  \/ \E i \in 1..Len(all_text) :
       \* \d{4}-\d{2}
       \/ DigitsAt(all_text, i, 4) /\ i + 4 <= Len(all_text) /\ all_text[i + 4] = "-"
            /\ DigitsAt(all_text, i + 5, 2)
       \* (jan|...|dec)[-\s]?\d{2,4}
       \/ i + 2 <= Len(all_text) /\ SubSeq(all_text, i, i + 2) \in month_abbreviations
            /\ NumberAfter(all_text, i + 3)
       \* q[1-4][-\s]?\d{2,4}
       \/ QuarterAt(all_text, i) /\ NumberAfter(all_text, i + 2)
       \* \d{4}[-\s]?q[1-4]
       \/ DigitsAt(all_text, i, 4)
            /\ \/ QuarterAt(all_text, i + 4)
               \/ i + 4 <= Len(all_text) /\ (all_text[i + 4] = "-" \/ IsSpace(all_text[i + 4]))
                    /\ QuarterAt(all_text, i + 5)

\* int(re.search(r"\d{4}", label).group()), None without four digits in a row
FirstFourDigits(label) ==
  LET starts == { i \in 1..Len(label) : DigitsAt(label, i, 4) }
  IN  IF starts = {} THEN None
      ELSE LET i == CHOOSE k \in starts : \A j \in starts : k <= j
           IN  Some(1000 * DigitVal[label[i]] + 100 * DigitVal[label[i + 1]]
                      + 10 * DigitVal[label[i + 2]] + DigitVal[label[i + 3]])

\* nums of lines 155-159: the numbers of the first three labels that have one
RECURSIVE Nums(_)
Nums(labels) ==
  IF labels = <<>> THEN <<>>
  ELSE IF IsNone(FirstFourDigits(Head(labels))) THEN Nums(Tail(labels))
  ELSE <<FirstFourDigits(Head(labels))[1]>> \o Nums(Tail(labels))

\* lines 152-163
SequentialYears(x_labels) ==
  /\ Len(x_labels) >= 3
  /\ LET nums == Nums(SubSeq(x_labels, 1, 3))
     IN  /\ Len(nums) >= 2
         /\ \A i \in 1..(Len(nums) - 1) : nums[i + 1] - nums[i] = 1

\* re.search of one of the category_indicators in all_text
SearchCategoryIndicators(all_text) ==
  \E tok \in Tokens(all_text) : tok \in category_indicator_words

_determine_chart_type(x_labels, filename, x_column_name) ==
  LET all_text == Lower(filename \o <<" ">> \o x_column_name \o <<" ">> \o JoinSpace(x_labels))
  IN  IF SearchTimeIndicators(all_text) THEN "line"
      ELSE IF SequentialYears(x_labels) THEN "line"
      ELSE IF Len(x_labels) >= ManyLabels THEN "line"
      ELSE IF SearchCategoryIndicators(all_text) THEN "bar"
      ELSE IF Len(x_labels) < ManyLabels THEN "bar" ELSE "line"

(***************************************************************************)
(* Specification of the chart-type suggestion: one call of                 *)
(* _determine_chart_type, as auto_detect_chart_data makes it, on the       *)
(* labels of a sheet.  The file name and the column name carry no cue.     *)
(***************************************************************************)
MaxLabels == 3

SheetLabels ==
  { <<"a">>, <<"p","r","o","d","u","c","t">>, <<"1","9","9","9">>,
    <<"2","0","2","4">>, <<"m","o","n">>, <<"d","a","y">>,
    <<"j","a","n","2","4">>, <<"a","1","0","0","1">>,
    <<"a","1","0","0","2">> }

\* ten labels a, b, ..., j
TenLabels ==
  << <<"a">>, <<"b">>, <<"c">>, <<"d">>, <<"e">>, <<"f">>, <<"g">>, <<"h">>, <<"i">>, <<"j">> >>

LabelLists == UNION { [1..n -> SheetLabels] : n \in 1..MaxLabels } \cup {TenLabels}

FileNames == { <<>>, <<"d","a","t","a",".","x","l","s","x">> }

ColumnNames == { <<>>, <<"l","a","b","e","l">> }

InitSuggest ==
  /\ ClassifierIdle
  /\ StoreIdle
  /\ SamplerIdle
  /\ parser \in { [pc |-> "ready", x_labels |-> l, filename |-> f, x_column_name |-> c,
                   chart_type |-> "None"] :
                  l \in LabelLists, f \in FileNames, c \in ColumnNames }

DetermineChartType ==
  /\ parser.pc = "ready"
  /\ parser' = [parser EXCEPT
                  !.pc = "done",
                  !.chart_type = _determine_chart_type(parser.x_labels, parser.filename,
                                                       parser.x_column_name)]
  /\ UNCHANGED <<classifierVars, storeVars, samplerVars>>

NextSuggest == DetermineChartType

SpecSuggest == InitSuggest /\ [][NextSuggest]_vars

\* C27 (the suggestion agrees with the classifier): for every list of labels
\* the chart type _determine_chart_type suggests equals the chart type
\* _detect_chart_type gives for a message without keywords and these labels.
C27_SuggestionAgrees ==
  parser.pc = "done" =>
    parser.chart_type = _detect_chart_type(<<>>, parser.x_labels)


(***************************************************************************)
(* Properties of the data of the message against the history.              *)
(***************************************************************************)
\* C28 (message data overrides history): when the message has no refusal
\* keyword and carries two or more key=value pairs, the call returns the
\* decision it returns for the empty history, whatever the history is, and
\* no exception of the history scan is raised or absorbed.
C28_MessageDataOverridesHistory ==
  (Decided /\ pc = "analyze" /\ ~_should_refuse(user_message) /\ HasData) =>
    /\ chart_data = analyze(user_message, <<>>).chart_data
    /\ ~raised
    /\ caught = "None"

\* a message with data, a style keyword and a color, decided with a history
\* whose chart turn holds other data
C28_Witness ==
  /\ Accepted
  /\ pc = "analyze"
  /\ ~_should_refuse(user_message)
  /\ HasData
  /\ HasAny(style_change_keywords)
  /\ HasAny(bnr_keywords)
  /\ HasChartTurn
  /\ LatestChartTurn.metadata[1].x_labels # chart_data[1].x_labels


(***************************************************************************)
(* Specification of one conversation: chat requests and clear-history      *)
(* requests of the session s1, served one after the other by the           *)
(* rule-based engine.                                                      *)
(***************************************************************************)
MaxChain == 4

SessionMessages ==
  { \* data
  <<"c","=","3",","," ","d","=","4">>,
    \* a request that is refused and carries data
  <<"p","i","e"," ","c","h","a","r","t"," ","a","=","1",","," ","b","=","2">>,
    \* a style change
  <<"C","h","a","n","g","e"," ","i","t"," ","t","o"," ","B","N","R"," ","c",
    "o","l","o","r","s">>,
    \* a request that is refused and carries no data
  <<"t","e","l","l"," ","a"," ","j","o","k","e">> }

SessionChat(message, render_ok) ==
  /\ Len(tracked["s1"]) < MaxChain
  /\ chat("s1", message, render_ok)

SessionClear ==
  /\ Len(tracked["s1"]) < MaxChain
  /\ sessions' = clear_chat_history(sessions, "s1")
  /\ call' = Response("delete", "s1", 200, FALSE, "None", "None", "None")
  /\ Track("s1", "delete", 200)
  /\ UNCHANGED <<now, style_set, inflight, applied, memory, awaiting>>
  /\ UNCHANGED <<classifierVars, samplerVars, parserVars>>

InitSession == ClassifierIdle /\ StoreIdle /\ SamplerIdle /\ ParserIdle

NextSession ==
  \/ \E m \in SessionMessages, ok \in BOOLEAN : SessionChat(m, ok)
  \/ SessionClear

SpecSession == InitSession /\ [][NextSession]_vars

(***************************************************************************)
(* Properties of a conversation.  After a chat request the history of the  *)
(* session ends with the user message and the reply to it.                 *)
(***************************************************************************)
SessionHistory == get_chat_history(sessions, "s1")

\* the message of the last chat request, and the history the engine was given
LastMessage == SessionHistory[Len(SessionHistory) - 1].content[1]
LastReply == SessionHistory[Len(SessionHistory)]
HistoryBefore == SubSeq(SessionHistory, 1, Len(SessionHistory) - 2)

\* a user turn whose content yields two or more pairs
UserDataTurn(msg) ==
  msg.role = "user" /\ ~IsNone(msg.content) /\ ~IsNone(_extract_data_pairs(msg.content[1]))

\* the last request was a style-change request without a refusal keyword
StyleChangeServed ==
  /\ call.op = "chat"
  /\ _is_style_change_request(LastMessage)
  /\ ~_should_refuse(LastMessage)

\* refused for lack of previous data: no chart, no metadata
RefusedNoStyleData ==
  /\ ~call.charted
  /\ call.style = "None"
  /\ LastReply.role = "assistant"
  /\ LastReply.content = Some(REASON_NO_STYLE_DATA)
  /\ IsNone(LastReply.metadata)

\* an assistant turn that is a refusal of the engine
RefusalTurn(msg) ==
  IF msg.role = "assistant"
    THEN msg.content \in { Some(REASON_REFUSE), Some(REASON_NO_STYLE_DATA),
                           Some(REASON_NO_DATA), Some(REASON_NO_PREVIOUS) }
    ELSE FALSE

\* C24 as stated: a style-change request in a session whose history is empty
\* (new or cleared) or holds refusals only is refused with the reason
\* "couldn't find previous chart data", renders nothing and stores no metadata.
C24_StyleChangeWithoutChart ==
  (/\ StyleChangeServed
   /\ \A i \in 1..Len(HistoryBefore) :
        HistoryBefore[i].role = "assistant" => RefusalTurn(HistoryBefore[i]))
    => RefusedNoStyleData

\* C24 amended: the same when the history holds neither a chart turn nor a
\* user turn that carries two or more pairs.
C24_StyleChangeWithoutData ==
  (/\ StyleChangeServed
   /\ \A i \in 1..Len(HistoryBefore) :
        ~ChartTurn(HistoryBefore[i]) /\ ~UserDataTurn(HistoryBefore[i]))
    => RefusedNoStyleData

\* a style change after a refusal that followed a clear-history
C24_Witness ==
  /\ StyleChangeServed
  /\ Len(HistoryBefore) = 2
  /\ \A i \in 1..Len(HistoryBefore) :
       ~ChartTurn(HistoryBefore[i]) /\ ~UserDataTurn(HistoryBefore[i])
  /\ \E k \in 1..Len(tracked["s1"]) : tracked["s1"][k].op = "delete"
  /\ RefusedNoStyleData


\* the data of a chart turn
TurnData(msg) == <<msg.metadata[1].x_labels, msg.metadata[1].y_values>>

\* the position of the latest chart turn before position j
LatestChartBefore(j) ==
  CHOOSE i \in 1..(j - 1) :
    /\ ChartTurn(SessionHistory[i])
    /\ \A k \in (i + 1)..(j - 1) : ~ChartTurn(SessionHistory[k])

\* the reply at position j is a chart made for a style-change request
RestyledAt(j) ==
  /\ j >= 2
  /\ ChartTurn(SessionHistory[j])
  /\ SessionHistory[j - 1].role = "user"
  /\ _is_style_change_request(SessionHistory[j - 1].content[1])

\* C29 (chained restyling keeps the data): every chart made for a
\* style-change request after a chart with data D was made carries the data
\* D of the latest chart before it, refused requests in between or not, so a
\* chain of style changes keeps the data of the chart it started from.
C29_RestylingKeepsData ==
  \A j \in 1..Len(SessionHistory) :
    (RestyledAt(j) /\ \E i \in 1..(j - 1) : ChartTurn(SessionHistory[i]))
      => TurnData(SessionHistory[j]) = TurnData(SessionHistory[LatestChartBefore(j)])

\* a chart, its restyling, a refused request with other data and a second
\* restyling
C29_Witness ==
  /\ Len(SessionHistory) = 8
  /\ ChartTurn(SessionHistory[2])
  /\ ~_is_style_change_request(SessionHistory[1].content[1])
  /\ RestyledAt(4)
  /\ RefusalTurn(SessionHistory[6])
  /\ UserDataTurn(SessionHistory[5])
  /\ RestyledAt(8)
  /\ TurnData(SessionHistory[8]) = TurnData(SessionHistory[2])


(***************************************************************************)
(* Specification of overlapping chat requests.  With OPENAI_API_KEY set    *)
(* analyze_chart_request awaits the reply of the LLM (chart_agent.py line  *)
(* 221), and the event loop serves other requests while a handler is       *)
(* suspended there.  ChatReceive is the handler up to the await (chat.py   *)
(* lines 27-43), ChatReply the handler from the await on: the LLM replied  *)
(* with a decision, or a step failed and the rule-based engine decided     *)
(* on the history the handler had read before.                             *)
(***************************************************************************)
OverlapMessages ==
  { <<"a","=","1",","," ","b","=","2">>,
    <<"t","e","l","l"," ","a"," ","j","o","k","e">> }

\* the requests that have started
Started == Requests + Cardinality(awaiting)

ChatReceive(session_id, message) ==
  /\ Started < MaxRequests
  /\ LET touched == update_last_used(sessions, session_id, now)
     IN  /\ sessions' = add_to_chat_history(touched, session_id, "user", message, None, now)
         /\ awaiting' = awaiting \cup
                          { [id |-> Started + 1,
                             session_id |-> session_id,
                             message |-> message,
                             style |-> get_style_preference(touched, session_id),
                             conversation_history |-> get_chat_history(touched, session_id)] }
  /\ UNCHANGED <<now, call, style_set, tracked, inflight, applied, memory>>
  /\ UNCHANGED <<classifierVars, samplerVars, parserVars>>

ChatReply(request, llm_ok, render_ok) ==
  /\ request \in awaiting
  /\ HAS_OPENAI_KEY
  /\ IF llm_ok
       THEN \E reply \in LLMReplies :
              ChatDecide(request.session_id, sessions, request.style, reply, render_ok)
       ELSE ChatDecide(request.session_id, sessions, request.style,
                       analyze(request.message, request.conversation_history).chart_data[1],
                       render_ok)
  /\ Track(request.session_id, "chat", 200)
  /\ awaiting' = awaiting \ {request}
  /\ UNCHANGED <<now, style_set, inflight, applied, memory>>
  /\ UNCHANGED <<classifierVars, samplerVars, parserVars>>

InitOverlap ==
  /\ user_message = <<>>
  /\ conversation_history = <<>>
  /\ HAS_OPENAI_KEY = TRUE
  /\ pc = "idle"
  /\ llm = "not_called"
  /\ chart_data = None
  /\ caught = "None"
  /\ raised = FALSE
  /\ StoreIdle
  /\ SamplerIdle
  /\ ParserIdle

NextOverlap ==
  \/ \E s \in SessionIds, m \in OverlapMessages : ChatReceive(s, m)
  \/ \E r \in awaiting, llm_ok \in BOOLEAN, ok \in BOOLEAN : ChatReply(r, llm_ok, ok)

SpecOverlap == InitOverlap /\ [][NextOverlap]_vars

\* the requests of a session that are suspended
AwaitingOf(s) == { r \in awaiting : r.session_id = s }

\* C30 (history alternation under overlapping requests): in every reachable
\* state the history of a session is a sequence of (user message, assistant
\* reply) pairs, followed by the user message of the request being served
\* if there is one: user turns at the odd positions, assistant turns at the
\* even ones, also when two requests of the session overlap.
C30_HistoryAlternates ==
  \A s \in SessionIds :
    LET h == get_chat_history(sessions, s)
    IN  /\ \A i \in 1..Len(h) : h[i].role = (IF i % 2 = 1 THEN "user" ELSE "assistant")
        /\ AwaitingOf(s) = {} => Len(h) % 2 = 0

====
